---------------------------- MODULE Spec2Model ----------------------------
(***************************************************************************)
(* Verification model of akutz/github-impact: the remote-call governor     *)
(* (API slot pool, retry policy), the member pipeline (roster enumeration, *)
(* per-login workers, report writer, error watcher), the git subprocess    *)
(* pool, the commit-log parser, and the cache updater with its per-user    *)
(* sub-goroutines (updateLocalCache, generateReport).                      *)
(*                                                                         *)
(* Text is modelled as sequences of one-character strings, so that the     *)
(* conversions of the program (strconv.Atoi, the numstat regular           *)
(* expression) are computed character by character.                        *)
(***************************************************************************)
EXTENDS Integers, Sequences, FiniteSets, TLC

VARIABLES
    \* ---- one remote call with its retry loop (loadFromGitHub in isolation)
    rScript,    \* the responses the server gives to attempts 1, 2, ...
    rCap,       \* opts.config.GitHub.API.Retries
    rCur,       \* the local variable retries of loadFromGitHub
    rAttempts,  \* number of Users.Get calls made so far
    rSleeps,    \* the durations (seconds) slept by retryAfter, in order
    rResult,    \* "none" while looping, then "ok" or "err"
    \* ---- the member pipeline of main (full-roster mode, live fetch)
    roster,        \* the pages of the organisation's member list
    chanAPI,       \* number of tokens in opts.chanAPI
    apiReleasers,  \* goroutines of doneWithAPI that have not received yet
    fPc,           \* position of the goroutine of fetchMemberLogins
    fPage,         \* listOpts.Page
    fRetries,      \* retries of fetchMemberLogins
    loginSenders,  \* logins whose sender goroutine waits on chanLogins
    loginsErrBuf,  \* errors buffered in chanErrs of fetchMemberLogins
    loginsClosed,  \* <<chanLogins closed, its chanErrs closed>>
    gamPc,         \* position of the goroutine of getAllMembers
    wPc,           \* position of each login's worker goroutine
    wRetries,      \* retries of each worker's loadFromGitHub
    allErrBuf,     \* errors buffered in chanErrs of getAllMembers
    allClosed,     \* <<chanMembers closed, chanErrs closed>> of getAllMembers
    gmPc,          \* position of the goroutine of getMembers
    gmCur,         \* the member received by getMembers, "" when none
    outErrBuf,     \* errors buffered in chanErrsOut
    outClosed,     \* <<chanMembersOut closed, chanErrsOut closed>>
    ewPc,          \* position of the error-watching goroutine of main
    handed,        \* per login, the number of workers started for it
    emitted,       \* per login, the number of rows written by writeReport
    taskErr,       \* the logins whose task has reported an error
    fetchErr,      \* the roster enumeration has reported an error
    faults,        \* number of failing outcomes the environment has produced
    exitCode,      \* exit status of the process, <<>> while it runs
    resume,        \* opts.config.Resume
    anchor,        \* flag.Arg(0), the login to resume from
    \* ---- one pass of the commit-log parser
    pLog,          \* the lines of the output of git log
    pDone,         \* the pass has run
    pOut,          \* the changesets it produced
    pErr,          \* it returned a parse error
    \* ---- the git subprocess pool with one mining goroutine per user
    gitMax,        \* config.gitMax, the capacity of chanGit
    chanGit,       \* number of tokens in chanGit
    mLogs,         \* per user, the git log outputs of its candidates
    mPc,           \* per user, the position of its writeGitLog goroutine
    proc,          \* per user, the state of the git subprocess it started
    \* ---- updateLocalCache and generateReport (named users, live fetch)
    cArgs,         \* config.args, the logins named on the command line
    cSrc,          \* per login, the position of its goroutine of getNamedMembers
    cSrcPc,        \* position of the deferred function of getNamedMembers
    cSrcErrBuf,    \* errors buffered in chanErrs of getNamedMembers
    cSrcClosed,    \* <<chanUsers closed, chanErrs closed>> of getNamedMembers
    cLoopPc,       \* position of the goroutine of updateLocalCache
    cPc,           \* per login, the position of its user goroutine
    cJob,          \* per login, the state of each of its five sub-goroutines
    cErrBuf,       \* errors buffered in chanErrs of updateLocalCache
    cClosed,       \* <<chanEntries closed, chanErrs closed>>
    cEmitted,      \* per login, the number of entries written to the report
    cTaskErr,      \* the logins for which a step has returned an error
    cFaults,       \* number of failing outcomes the environment has produced
    cExit,         \* exit status of the process, <<>> while it runs
    \* ---- commit mining of one member over successive runs of the program
    gEmployed,     \* m.Employed, the employment windows
    gCommits,      \* m.Commits, the changeset list of the record
    gCandidates,   \* the candidate author strings of this run, in order
    gDone,         \* number of candidates whose git log was read in this run
    gParsed,       \* the changesets parsed from the logs read in this run
    gChangesets,   \* the running map of changesets, keyed by long hash
    gKnown,        \* knownChangesets, the long hashes of the cached record
    gRow,          \* the totals last reported for the member, <<>> if none
    gPc,           \* position of the run
    gRuns,         \* number of runs completed
    \* ---- the affiliation table and the e-mail merge of one user
    aBlocks,       \* the blocks the affiliation reference file is written from
    aFile,         \* the lines of the affiliation reference file
    aTable,        \* what decoding the file returned
    aUser,         \* the user as loaded, before the merges
    aEmails,       \* user.Emails
    aPc,           \* "decode", "merge" or "done"
    \* ---- named mode: the arguments of main and the tasks of getNamedMembers
    nArgv,         \* flag.Args()
    nResume,       \* opts.config.Resume
    nArgs,         \* opts.config.Args
    nPc,           \* position of main and getMembers
    nI,            \* the loop variable i of getNamedMembers, counted from 1
    nStarted,      \* per login, the number of worker goroutines started
    nEnum,         \* getAllMembers has been called
    \* ---- the remote and subprocess calls of the per-user jobs of
    \* ---- updateLocalCache, under a context the caller may cancel
    iCtxDone,      \* ctx.Err() != nil
    iApiMax,       \* config.apiMax, the capacity of chanAPI
    iChanAPI,      \* number of tokens in chanAPI
    iReleasers,    \* goroutines of doneWithAPI that have not received yet
    iGitMax,       \* config.gitMax, the capacity of chanGit
    iChanGit,      \* number of tokens in chanGit
    iUser,         \* per user, the position of its getUser
    iFetch,        \* per user and filter, the position of fetchIssues
    iPulls,        \* per user and filter, PullRequests.Get calls in flight
    iGit,          \* per user, the position of its git()
    \* ---- the base record of one login (cached record, live fetch)
    lCfg,          \* the no-fetch-users setting
    lDisk,         \* the cached record of the login, <<>> when there is none
    lRemote,       \* the profile the remote API returns for the login
    lPc,           \* "load" or "done"
    lOut,          \* what the load returned
    \* ---- one run of main's set-up and of the member workers: the live
    \* ---- fetch of each member through the API pool, then its commit
    \* ---- mining through the git pool
    sCfg,          \* the flags no-fetch-users, -issues and -pull-requests
    sMain,         \* "setup" until main has made its pools, then "run"
    sMade,         \* opts.chanAPI and opts.github are not nil
    sApi,          \* number of tokens in chanAPI
    sRel,          \* goroutines of doneWithAPI that have not received yet
    sGit,          \* number of tokens in chanGit
    sPc,           \* per member, the position of its worker
    sRetries,      \* per member, the retries variable of loadFromGitHub
    sLeft,         \* per member, the e-mails gitLog has still to mine
    \* ---- the author strings commit mining queries for one identity
    qUser,         \* the identity: login, primary e-mail, name, e-mail list
    qList,         \* the author strings queried, in order
    qPc,           \* "mine" or "done"
    \* ---- writeIssueLog for one login
    tIssues,       \* the issues of the repository that involve the login
    tPending,      \* pairs <<filter, number>> getIssues has still to deliver
    tReport,       \* the report: counters of issues and of pull requests
    tNumbers,      \* issueNumbers, the numbers already written
    tWritten,      \* per issue number, how often writeIssue was called
    tPc            \* "recv", "done" or "failed"

retryVars == <<rScript, rCap, rCur, rAttempts, rSleeps, rResult>>

parseVars == <<pLog, pDone, pOut, pErr>>

gitVars == <<gitMax, chanGit, mLogs, mPc, proc>>

mineVars == <<gEmployed, gCommits, gCandidates, gDone, gParsed, gChangesets,
              gKnown, gRow, gPc, gRuns>>

affVars == <<aBlocks, aFile, aTable, aUser, aEmails, aPc>>

namedVars == <<nArgv, nResume, nArgs, nPc, nI, nStarted, nEnum>>

govVars == <<iCtxDone, iApiMax, iChanAPI, iReleasers, iGitMax, iChanGit,
             iUser, iFetch, iPulls, iGit>>

loadVars == <<lCfg, lDisk, lRemote, lPc, lOut>>

workVars == <<sCfg, sMain, sMade, sApi, sRel, sGit, sPc, sRetries, sLeft>>

candVars == <<qUser, qList, qPc>>

issueVars == <<tIssues, tPending, tReport, tNumbers, tWritten, tPc>>

lateVars == <<workVars, candVars, issueVars>>

moreVars == <<namedVars, govVars, loadVars, lateVars>>

cacheVars == <<cArgs, cSrc, cSrcPc, cSrcErrBuf, cSrcClosed, cLoopPc, cPc, cJob,
               cErrBuf, cClosed, cEmitted, cTaskErr, cFaults, cExit>>

apiVars == <<chanAPI, apiReleasers>>

fetchVars == <<fPc, fPage, fRetries, loginSenders, loginsErrBuf, loginsClosed>>

gamVars == <<gamPc, wPc, wRetries, allErrBuf, allClosed>>

gmVars == <<gmPc, gmCur, outErrBuf, outClosed>>

mainVars == <<ewPc, handed, emitted, taskErr, fetchErr, faults, exitCode>>

\* the configuration, which no action changes
configVars == <<resume, anchor>>

pipeVars == <<roster, apiVars, fetchVars, gamVars, gmVars, mainVars,
              configVars>>

\* the variables the member pipeline leaves alone
nonPipeVars == <<retryVars, parseVars, gitVars, cacheVars, mineVars, affVars,
                 configVars, moreVars>>

baseVars == <<retryVars, parseVars, gitVars, pipeVars, cacheVars, mineVars,
              affVars>>

earlyVars == <<baseVars, namedVars, govVars, loadVars>>

vars == <<baseVars, moreVars>>

RetryIdle ==
    /\ rScript = <<>>
    /\ rCap = 0
    /\ rCur = 0
    /\ rAttempts = 0
    /\ rSleeps = <<>>
    /\ rResult = "none"

ParseIdle ==
    /\ pLog = <<>>
    /\ pDone = FALSE
    /\ pOut = <<>>
    /\ pErr = FALSE

GitIdle ==
    /\ gitMax = 0
    /\ chanGit = 0
    /\ mLogs = <<>>
    /\ mPc = <<>>
    /\ proc = <<>>

MineIdle ==
    /\ gEmployed = <<>>
    /\ gCommits = <<>>
    /\ gCandidates = <<>>
    /\ gDone = 0
    /\ gParsed = {}
    /\ gChangesets = <<>>
    /\ gKnown = {}
    /\ gRow = <<>>
    /\ gPc = "idle"
    /\ gRuns = 0

NamedIdle ==
    /\ nArgv = <<>>
    /\ nResume = FALSE
    /\ nArgs = <<>>
    /\ nPc = "idle"
    /\ nI = 0
    /\ nStarted = <<>>
    /\ nEnum = FALSE

GovIdle ==
    /\ iCtxDone = FALSE
    /\ iApiMax = 0
    /\ iChanAPI = 0
    /\ iReleasers = 0
    /\ iGitMax = 0
    /\ iChanGit = 0
    /\ iUser = <<>>
    /\ iFetch = <<>>
    /\ iPulls = <<>>
    /\ iGit = <<>>

LoadIdle ==
    /\ lCfg = FALSE
    /\ lDisk = <<>>
    /\ lRemote = <<>>
    /\ lPc = "idle"
    /\ lOut = <<>>

WorkIdle ==
    /\ sCfg = <<>>
    /\ sMain = "idle"
    /\ sMade = FALSE
    /\ sApi = 0
    /\ sRel = 0
    /\ sGit = 0
    /\ sPc = <<>>
    /\ sRetries = <<>>
    /\ sLeft = <<>>

CandIdle ==
    /\ qUser = <<>>
    /\ qList = <<>>
    /\ qPc = "idle"

IssueIdle ==
    /\ tIssues = <<>>
    /\ tPending = {}
    /\ tReport = <<>>
    /\ tNumbers = {}
    /\ tWritten = <<>>
    /\ tPc = "idle"

LateIdle == WorkIdle /\ CandIdle /\ IssueIdle

MoreIdle == NamedIdle /\ GovIdle /\ LoadIdle /\ LateIdle

AffIdle ==
    /\ aBlocks = <<>>
    /\ aFile = <<>>
    /\ aTable = <<>>
    /\ aUser = <<>>
    /\ aEmails = <<>>
    /\ aPc = "idle"

CacheIdle ==
    /\ cArgs = <<>>
    /\ cSrc = <<>>
    /\ cSrcPc = "done"
    /\ cSrcErrBuf = 0
    /\ cSrcClosed = <<FALSE, FALSE>>
    /\ cLoopPc = "done"
    /\ cPc = <<>>
    /\ cJob = <<>>
    /\ cErrBuf = 0
    /\ cClosed = <<FALSE, FALSE>>
    /\ cEmitted = <<>>
    /\ cTaskErr = {}
    /\ cFaults = 0
    /\ cExit = <<>>

-----------------------------------------------------------------------------
(* Bounds *)

\* largest configured api-retries value explored by the retry specification
MaxRetriesCfg == 2

\* number of commits in a log given to the parser
MaxCommits == 2

\* number of users whose commits are mined concurrently
MaxMiners == 2

\* largest configured git-max value explored
MaxGitMax == 1

\* largest number of logins named on the command line
MaxArgs == 2

\* largest number of non-flag arguments of main in named mode, and the
\* number of logins they are taken from
MaxArgv == 3

\* largest number of candidate author strings of a member
MaxCandidates == 2

\* number of runs of the program over the same cached record
MaxRuns == 2

\* number of logins in the organisation's member list
MaxLogins == 2

\* the configured api-retries value of the member pipeline
ApiRetries == 1

\* number of failing outcomes (failed remote calls, disk, directory, git and
\* csv errors) the environment produces in one run of the pipeline
MaxFaults == 1

\* blocks of the affiliation reference file
MaxBlocks == 2

\* issues of the repository that involve the login
MaxIssues == 2

\* commits of a well-formed log given to the parser
MaxLogCommits == 4

-----------------------------------------------------------------------------
(* Program constants *)

\* default of -api-retry-wait, in seconds
RetryWait == 10

\* default of -api-max
ApiMax == 2

exitCodeWriteReport == 7

\* the shortest name writeGitLog mines by
MinNameLen == 8

-----------------------------------------------------------------------------
(* Text helpers *)

Digits == {"0", "1", "2", "3", "4", "5", "6", "7", "8", "9"}

DigitVal(c) ==
    CASE c = "0" -> 0 [] c = "1" -> 1 [] c = "2" -> 2 [] c = "3" -> 3
      [] c = "4" -> 4 [] c = "5" -> 5 [] c = "6" -> 6 [] c = "7" -> 7
      [] c = "8" -> 8 [] c = "9" -> 9

AllDigits(s) == \A i \in 1..Len(s) : s[i] \in Digits

RECURSIVE DecVal(_)
DecVal(s) ==
    IF s = <<>> THEN 0
    ELSE 10 * DecVal(SubSeq(s, 1, Len(s) - 1)) + DigitVal(s[Len(s)])

\* strconv.Atoi with the error discarded: an optional sign followed by
\* decimal digits gives the number, anything else gives 0.
Atoi(s) ==
    LET body == IF s # <<>> /\ s[1] \in {"+", "-"} THEN Tail(s) ELSE s
    IN  IF body = <<>> \/ ~AllDigits(body) THEN 0
        ELSE IF s[1] = "-" THEN 0 - DecVal(body) ELSE DecVal(body)

RECURSIVE SeqsOfLen(_, _)
SeqsOfLen(S, n) ==
    IF n = 0 THEN {<<>>}
    ELSE {Append(s, x) : s \in SeqsOfLen(S, n - 1), x \in S}

-----------------------------------------------------------------------------
(* Remote responses *)

\* A response as the retry policy sees it: err is the error result of the
\* call, hasRep tells whether a *github.Response came back, retryAfterHdr is
\* rep.Header["Retry-After"] (a list of header values) and status is
\* rep.StatusCode.
Resp(err, hasRep, hdr, status) ==
    [err |-> err, hasRep |-> hasRep, retryAfterHdr |-> hdr, status |-> status]

RespOK       == Resp(FALSE, TRUE, <<>>, 200)
RespNoRep    == Resp(TRUE, FALSE, <<>>, 0)
RespRA2      == Resp(TRUE, TRUE, << <<"2">> >>, 429)
RespRA0      == Resp(TRUE, TRUE, << <<"0">> >>, 403)
RespRADate   == Resp(TRUE, TRUE, << <<"F", "r", "i">> >>, 503)
Resp500      == Resp(TRUE, TRUE, <<>>, 500)
Resp502      == Resp(TRUE, TRUE, <<>>, 502)
Resp503      == Resp(TRUE, TRUE, <<>>, 503)
Resp404      == Resp(TRUE, TRUE, <<>>, 404)

RetryResps ==
    {RespOK, RespNoRep, RespRA2, RespRA0, RespRADate,
     Resp500, Resp502, Resp503, Resp404}

\* retryAfter(rep, &cur, opts): the decision, the new value of *cur and the
\* time slept (0 when it does not sleep).
retryAfterIgnoreHdr(rep, cur, cap) ==
    IF cur > cap THEN [retry |-> FALSE, cur |-> cur, sleep |-> 0]
    ELSE IF ~rep.hasRep THEN [retry |-> FALSE, cur |-> cur, sleep |-> 0]
    ELSE IF Len(rep.retryAfterHdr) > 0
         THEN [retry |-> TRUE, cur |-> cur + 1, sleep |-> RetryWait]
    ELSE IF rep.status = 500
         THEN [retry |-> TRUE, cur |-> cur + 1, sleep |-> RetryWait]
    ELSE [retry |-> FALSE, cur |-> cur, sleep |-> 0]

retryAfter(rep, cur, cap) ==
    IF cur > cap THEN [retry |-> FALSE, cur |-> cur, sleep |-> 0]
    ELSE IF ~rep.hasRep THEN [retry |-> FALSE, cur |-> cur, sleep |-> 0]
    ELSE IF Len(rep.retryAfterHdr) > 0
         THEN LET secs == Atoi(rep.retryAfterHdr[1])
              IN  [retry |-> TRUE, cur |-> cur + 1,
                   sleep |-> IF secs > 0 THEN secs ELSE 0]
    ELSE IF rep.status = 500
         THEN [retry |-> TRUE, cur |-> cur + 1, sleep |-> RetryWait]
    ELSE [retry |-> FALSE, cur |-> cur, sleep |-> 0]

-----------------------------------------------------------------------------
(* The member pipeline: fetchMemberLogins -> getAllMembers -> workers ->   *)
(* getMembers -> writeReport, with the error-watching goroutine of main.   *)
(* main builds ctx with context.Background(), which is never cancelled, so *)
(* the ctx.Done() cases are never ready and ctx.Err() is always nil.       *)

LoginPool == <<"alice", "bob", "carol", "dave">>

AllLogins == SubSeq(LoginPool, 1, MaxLogins)

Logins == {AllLogins[i] : i \in 1..MaxLogins}

\* The member list as the remote API pages it: every login once, in one page
\* or cut in two pages, the second page also holding a member whose login is
\* empty.
Rosters ==
    {<<AllLogins>>} \cup
    { <<SubSeq(AllLogins, 1, k),
        SubSeq(AllLogins, k + 1, MaxLogins) \o <<"">> >> : k \in 0..MaxLogins }

\* the characters of a login
LoginChars(l) ==
    CASE l = "alice" -> <<"a", "l", "i", "c", "e">>
      [] l = "bob" -> <<"b", "o", "b">>
      [] l = "carol" -> <<"c", "a", "r", "o", "l">>
      [] l = "dave" -> <<"d", "a", "v", "e">>

\* the place of a lower-case letter in the byte order
ByteOrder(c) ==
    LET abc == <<"a", "b", "c", "d", "e", "f", "g", "h", "i", "j", "k", "l",
                 "m", "n", "o", "p", "q", "r", "s", "t", "u", "v", "w", "x",
                 "y", "z">>
    IN  CHOOSE i \in 1..Len(abc) : abc[i] = c

\* a < b of two Go strings: the byte-wise lexicographic order, in which a
\* proper prefix is less
RECURSIVE StringLess(_, _)
StringLess(a, b) ==
    IF b = <<>> THEN FALSE
    ELSE IF a = <<>> THEN TRUE
    ELSE IF Head(a) = Head(b) THEN StringLess(Tail(a), Tail(b))
    ELSE ByteOrder(Head(a)) < ByteOrder(Head(b))

\* the values of the first command-line argument in resume mode
Anchors == { <<"b">>, <<"b", "o", "b">>, <<"b", "o", "b", "b", "y">> }

\* a response that names the page just served as the next one
NextPageSame(p) == p

\* rep.NextPage of the response for page p: 0 when there is no further page
NextPage(p) == IF p < Len(roster) THEN p + 1 ELSE 0

\* the responses the remote API gives in the pipeline
PipeResps == {RespOK, Resp500, Resp404}

Alive == exitCode = <<>>

\* the environment produces a failing outcome only within its budget
Fault(bad) ==
    IF bad THEN faults < MaxFaults /\ faults' = faults + 1
    ELSE faults' = faults

\* os.Exit(code), or main returning (code 0): the process and all of its
\* goroutines and channels are gone; what was written stays
ProcessExit(code) ==
    /\ exitCode' = <<code>>
    /\ chanAPI' = 0
    /\ apiReleasers' = 0
    /\ fPc' = "exited"
    /\ fPage' = 0
    /\ fRetries' = 0
    /\ loginSenders' = {}
    /\ loginsErrBuf' = 0
    /\ loginsClosed' = <<FALSE, FALSE>>
    /\ gamPc' = "exited"
    /\ wPc' = [l \in Logins |-> "exited"]
    /\ wRetries' = [l \in Logins |-> 0]
    /\ allErrBuf' = 0
    /\ allClosed' = <<FALSE, FALSE>>
    /\ gmPc' = "exited"
    /\ gmCur' = ""
    /\ outErrBuf' = 0
    /\ outClosed' = <<FALSE, FALSE>>
    /\ ewPc' = "exited"

PipeIdle ==
    /\ resume = FALSE
    /\ anchor = <<>>
    /\ roster = <<>>
    /\ chanAPI = 0
    /\ apiReleasers = 0
    /\ fPc = "done"
    /\ fPage = 0
    /\ fRetries = 0
    /\ loginSenders = {}
    /\ loginsErrBuf = 0
    /\ loginsClosed = <<FALSE, FALSE>>
    /\ gamPc = "done"
    /\ wPc = [l \in Logins |-> "none"]
    /\ wRetries = [l \in Logins |-> 0]
    /\ allErrBuf = 0
    /\ allClosed = <<FALSE, FALSE>>
    /\ gmPc = "done"
    /\ gmCur = ""
    /\ outErrBuf = 0
    /\ outClosed = <<FALSE, FALSE>>
    /\ ewPc = "done"
    /\ handed = [l \in Logins |-> 0]
    /\ emitted = [l \in Logins |-> 0]
    /\ taskErr = {}
    /\ fetchErr = FALSE
    /\ faults = 0
    /\ exitCode = <<>>

Init ==
    /\ MoreIdle
    /\ RetryIdle
    /\ ParseIdle
    /\ GitIdle
    /\ AffIdle
    /\ CacheIdle
    /\ MineIdle
    /\ resume \in BOOLEAN
    /\ anchor \in (IF resume THEN Anchors ELSE {<<>>})
    /\ roster \in Rosters
    /\ chanAPI = 0
    /\ apiReleasers = 0
    /\ fPc = "loop"
    /\ fPage = 1
    /\ fRetries = 0
    /\ loginSenders = {}
    /\ loginsErrBuf = 0
    /\ loginsClosed = <<FALSE, FALSE>>
    /\ gamPc = "select"
    /\ wPc = [l \in Logins |-> "none"]
    /\ wRetries = [l \in Logins |-> 0]
    /\ allErrBuf = 0
    /\ allClosed = <<FALSE, FALSE>>
    /\ gmPc = "select"
    /\ gmCur = ""
    /\ outErrBuf = 0
    /\ outClosed = <<FALSE, FALSE>>
    /\ ewPc = "select"
    /\ handed = [l \in Logins |-> 0]
    /\ emitted = [l \in Logins |-> 0]
    /\ taskErr = {}
    /\ fetchErr = FALSE
    /\ faults = 0
    /\ exitCode = <<>>

\* ---- the API slot pool

\* opts.waitForAPI(): a send on the buffered channel chanAPI, which blocks
\* while the channel holds api-max tokens
waitForAPINoBlock ==
    chanAPI' = chanAPI + 1

waitForAPI ==
    /\ chanAPI < ApiMax
    /\ chanAPI' = chanAPI + 1

\* opts.doneWithAPI(): starts a goroutine that sleeps api-wait and then
\* receives one token
doneWithAPI ==
    apiReleasers' = apiReleasers + 1

\* the goroutine started by doneWithAPI takes its token
ApiRelease ==
    /\ Alive
    /\ apiReleasers > 0
    /\ chanAPI > 0
    /\ chanAPI' = chanAPI - 1
    /\ apiReleasers' = apiReleasers - 1
    /\ UNCHANGED <<roster, fetchVars, gamVars, gmVars, mainVars, nonPipeVars>>

\* number of remote calls between waitForAPI and doneWithAPI
InFlight ==
    Cardinality({l \in Logins : wPc[l] = "inCall"})
        + (IF fPc = "inCall" THEN 1 ELSE 0)

\* ---- fetchMemberLogins

\* loop test passed, waitForAPI granted, ListMembers issued
FetchAcquire ==
    /\ Alive
    /\ fPc = "loop"
    /\ fPage > 0
    /\ waitForAPI
    /\ fPc' = "inCall"
    /\ UNCHANGED <<apiReleasers, roster, fPage, fRetries, loginSenders,
                   loginsErrBuf, loginsClosed, gamVars, gmVars, mainVars,
                   nonPipeVars>>

\* ListMembers returns: doneWithAPI, then retry, error or one sender
\* goroutine per non-empty login of the page
FetchReturn(rep) ==
    /\ Alive
    /\ fPc = "inCall"
    /\ doneWithAPI
    /\ Fault(rep.err)
    /\ IF rep.err
       THEN LET d == retryAfter(rep, fRetries, ApiRetries)
            IN  /\ IF d.retry
                   THEN /\ fRetries' = d.cur
                        /\ fPc' = "loop"
                        /\ UNCHANGED <<loginsErrBuf, fetchErr>>
                   ELSE /\ loginsErrBuf < 1
                        /\ loginsErrBuf' = loginsErrBuf + 1
                        /\ fetchErr' = TRUE
                        /\ fPc' = "wgWait"
                        /\ UNCHANGED fRetries
                /\ UNCHANGED <<fPage, loginSenders>>
       ELSE /\ loginSenders' = loginSenders \cup
                   ({roster[fPage][i] : i \in 1..Len(roster[fPage])} \ {""})
            /\ fPage' = NextPage(fPage)
            /\ fPc' = "loop"
            /\ UNCHANGED <<fRetries, loginsErrBuf, fetchErr>>
    /\ UNCHANGED <<chanAPI, roster, loginsClosed, gamVars, gmVars,
                   ewPc, handed, emitted, taskErr, exitCode, nonPipeVars>>

\* the loop ends because no further page was returned
FetchLoopEnd ==
    /\ Alive
    /\ fPc = "loop"
    /\ fPage = 0
    /\ fPc' = "wgWait"
    /\ UNCHANGED <<roster, apiVars, fPage, fRetries, loginSenders,
                   loginsErrBuf, loginsClosed, gamVars, gmVars, mainVars,
                   nonPipeVars>>

\* the deferred function: wg.Wait(), close(chanLogins), close(chanErrs)
FetchWgWaitNoWait ==
    /\ Alive
    /\ fPc = "wgWait"
    /\ fPc' = "closeLogins"
    /\ UNCHANGED <<roster, apiVars, fPage, fRetries, loginSenders,
                   loginsErrBuf, loginsClosed, gamVars, gmVars, mainVars,
                   nonPipeVars>>

FetchWgWait ==
    /\ Alive
    /\ fPc = "wgWait"
    /\ loginSenders = {}
    /\ fPc' = "closeLogins"
    /\ UNCHANGED <<roster, apiVars, fPage, fRetries, loginSenders,
                   loginsErrBuf, loginsClosed, gamVars, gmVars, mainVars,
                   nonPipeVars>>

FetchCloseLogins ==
    /\ Alive
    /\ fPc = "closeLogins"
    /\ loginsClosed' = <<TRUE, FALSE>>
    /\ fPc' = "closeErrs"
    /\ UNCHANGED <<roster, apiVars, fPage, fRetries, loginSenders,
                   loginsErrBuf, gamVars, gmVars, mainVars, nonPipeVars>>

FetchCloseErrs ==
    /\ Alive
    /\ fPc = "closeErrs"
    /\ loginsClosed' = <<TRUE, TRUE>>
    /\ fPc' = "done"
    /\ UNCHANGED <<roster, apiVars, fPage, fRetries, loginSenders,
                   loginsErrBuf, gamVars, gmVars, mainVars, nonPipeVars>>

\* ---- getAllMembers

\* the mutant of GamRecvLogin: the resume test is left out
GamRecvLoginNoResume(l) ==
    /\ Alive
    /\ gamPc = "select"
    /\ l \in loginSenders
    /\ loginSenders' = loginSenders \ {l}
    /\ wPc' = [wPc EXCEPT ![l] = "disk"]
    /\ handed' = [handed EXCEPT ![l] = @ + 1]
    /\ UNCHANGED <<roster, apiVars, fPc, fPage, fRetries, loginsErrBuf,
                   loginsClosed, gamPc, wRetries, allErrBuf, allClosed,
                   gmVars, ewPc, emitted, taskErr, fetchErr, faults,
                   exitCode, nonPipeVars>>

\* case login, ok := <-chanLogins with ok: in resume mode a login less than
\* the first command-line argument is skipped (continue); otherwise a
\* worker goroutine is started
GamRecvLogin(l) ==
    /\ Alive
    /\ gamPc = "select"
    /\ l \in loginSenders
    /\ loginSenders' = loginSenders \ {l}
    /\ IF resume /\ StringLess(LoginChars(l), anchor)
       THEN UNCHANGED <<wPc, handed>>
       ELSE /\ wPc' = [wPc EXCEPT ![l] = "disk"]
            /\ handed' = [handed EXCEPT ![l] = @ + 1]
    /\ UNCHANGED <<roster, apiVars, fPc, fPage, fRetries, loginsErrBuf,
                   loginsClosed, gamPc, wRetries, allErrBuf, allClosed,
                   gmVars, ewPc, emitted, taskErr, fetchErr, faults,
                   exitCode, nonPipeVars>>

\* case login, ok := <-chanLogins with !ok
GamLoginsClosed ==
    /\ Alive
    /\ gamPc = "select"
    /\ loginsClosed[1]
    /\ gamPc' = "wgWait"
    /\ UNCHANGED <<roster, apiVars, fetchVars, wPc, wRetries, allErrBuf,
                   allClosed, gmVars, mainVars, nonPipeVars>>

\* case err, ok := <-chanLoginsErrs with ok
GamRecvErr ==
    /\ Alive
    /\ gamPc = "select"
    /\ loginsErrBuf > 0
    /\ loginsErrBuf' = loginsErrBuf - 1
    /\ gamPc' = "sendErr"
    /\ UNCHANGED <<roster, apiVars, fPc, fPage, fRetries, loginSenders,
                   loginsClosed, wPc, wRetries, allErrBuf, allClosed,
                   gmVars, mainVars, nonPipeVars>>

\* case err, ok := <-chanLoginsErrs with !ok
GamErrsClosed ==
    /\ Alive
    /\ gamPc = "select"
    /\ loginsErrBuf = 0
    /\ loginsClosed[2]
    /\ gamPc' = "wgWait"
    /\ UNCHANGED <<roster, apiVars, fetchVars, wPc, wRetries, allErrBuf,
                   allClosed, gmVars, mainVars, nonPipeVars>>

\* chanErrs <- err on the channel of capacity 1 shared with the workers
GamSendErr ==
    /\ Alive
    /\ gamPc = "sendErr"
    /\ allErrBuf < 1
    /\ allErrBuf' = allErrBuf + 1
    /\ gamPc' = "wgWait"
    /\ UNCHANGED <<roster, apiVars, fetchVars, wPc, wRetries, allClosed,
                   gmVars, mainVars, nonPipeVars>>

\* the deferred function: wg.Wait(), close(chanMembers), close(chanErrs)
GamWgWait ==
    /\ Alive
    /\ gamPc = "wgWait"
    /\ \A l \in Logins : wPc[l] \in {"none", "done"}
    /\ gamPc' = "closeMembers"
    /\ UNCHANGED <<roster, apiVars, fetchVars, wPc, wRetries, allErrBuf,
                   allClosed, gmVars, mainVars, nonPipeVars>>

GamCloseMembers ==
    /\ Alive
    /\ gamPc = "closeMembers"
    /\ allClosed' = <<TRUE, FALSE>>
    /\ gamPc' = "closeErrs"
    /\ UNCHANGED <<roster, apiVars, fetchVars, wPc, wRetries, allErrBuf,
                   gmVars, mainVars, nonPipeVars>>

GamCloseErrs ==
    /\ Alive
    /\ gamPc = "closeErrs"
    /\ allClosed' = <<TRUE, TRUE>>
    /\ gamPc' = "done"
    /\ UNCHANGED <<roster, apiVars, fetchVars, wPc, wRetries, allErrBuf,
                   gmVars, mainVars, nonPipeVars>>

\* ---- the worker goroutine of one login: member.load, then the send

\* fileExists and loadFromDisk of member.load
WLoadDisk(l, ok) ==
    /\ Alive
    /\ wPc[l] = "disk"
    /\ Fault(~ok)
    /\ IF ok
       THEN /\ wPc' = [wPc EXCEPT ![l] = "waitAPI"]
            /\ UNCHANGED taskErr
       ELSE /\ wPc' = [wPc EXCEPT ![l] = "sendErr"]
            /\ taskErr' = taskErr \cup {l}
    /\ UNCHANGED <<roster, apiVars, fetchVars, gamPc, wRetries, allErrBuf,
                   allClosed, gmVars, ewPc, handed, emitted, fetchErr, exitCode,
                   nonPipeVars>>

\* loadFromGitHub: waitForAPI granted, Users.Get issued
WAcquire(l) ==
    /\ Alive
    /\ wPc[l] = "waitAPI"
    /\ waitForAPI
    /\ wPc' = [wPc EXCEPT ![l] = "inCall"]
    /\ UNCHANGED <<apiReleasers, roster, fetchVars, gamPc, wRetries,
                   allErrBuf, allClosed, gmVars, mainVars, nonPipeVars>>

\* loadFromGitHub: Users.Get returns, doneWithAPI, then retry, error or
\* success
WReturn(l, rep) ==
    /\ Alive
    /\ wPc[l] = "inCall"
    /\ doneWithAPI
    /\ Fault(rep.err)
    /\ IF rep.err
       THEN LET d == retryAfter(rep, wRetries[l], ApiRetries)
            IN  IF d.retry
                THEN /\ wRetries' = [wRetries EXCEPT ![l] = d.cur]
                     /\ wPc' = [wPc EXCEPT ![l] = "waitAPI"]
                     /\ UNCHANGED taskErr
                ELSE /\ wPc' = [wPc EXCEPT ![l] = "sendErr"]
                     /\ taskErr' = taskErr \cup {l}
                     /\ UNCHANGED wRetries
       ELSE /\ wPc' = [wPc EXCEPT ![l] = "rest"]
            /\ UNCHANGED <<wRetries, taskErr>>
    /\ UNCHANGED <<chanAPI, roster, fetchVars, gamPc, allErrBuf, allClosed,
                   gmVars, ewPc, handed, emitted, fetchErr, exitCode, nonPipeVars>>

\* loadFromLDAP and loadFromAffiliates of member.load
WLoadRest(l, ok) ==
    /\ Alive
    /\ wPc[l] = "rest"
    /\ Fault(~ok)
    /\ IF ok
       THEN /\ wPc' = [wPc EXCEPT ![l] = "sendMember"]
            /\ UNCHANGED taskErr
       ELSE /\ wPc' = [wPc EXCEPT ![l] = "sendErr"]
            /\ taskErr' = taskErr \cup {l}
    /\ UNCHANGED <<roster, apiVars, fetchVars, gamPc, wRetries, allErrBuf,
                   allClosed, gmVars, ewPc, handed, emitted, fetchErr, exitCode,
                   nonPipeVars>>

\* chanErrs <- err; return
WSendErr(l) ==
    /\ Alive
    /\ wPc[l] = "sendErr"
    /\ allErrBuf < 1
    /\ allErrBuf' = allErrBuf + 1
    /\ wPc' = [wPc EXCEPT ![l] = "done"]
    /\ UNCHANGED <<roster, apiVars, fetchVars, gamPc, wRetries, allClosed,
                   gmVars, mainVars, nonPipeVars>>

\* chanMembers <- m, received by case m, ok := <-chanMembersIn of getMembers
WSendMember(l) ==
    /\ Alive
    /\ wPc[l] = "sendMember"
    /\ gmPc = "select"
    /\ wPc' = [wPc EXCEPT ![l] = "done"]
    /\ gmCur' = l
    /\ gmPc' = "gitLog"
    /\ UNCHANGED <<roster, apiVars, fetchVars, gamPc, wRetries, allErrBuf,
                   allClosed, outErrBuf, outClosed, mainVars, nonPipeVars>>

\* ---- getMembers

\* case err, ok := <-chanErrsIn with ok: chanErrsOut <- err; return.  The
\* send is the only one getMembers ever makes on chanErrsOut (capacity 1).
GmRecvErr ==
    /\ Alive
    /\ gmPc = "select"
    /\ allErrBuf > 0
    /\ allErrBuf' = allErrBuf - 1
    /\ outErrBuf < 1
    /\ outErrBuf' = outErrBuf + 1
    /\ gmPc' = "closeMembersOut"
    /\ UNCHANGED <<roster, apiVars, fetchVars, gamPc, wPc, wRetries,
                   allClosed, gmCur, outClosed, mainVars, nonPipeVars>>

\* case err, ok := <-chanErrsIn with !ok
GmErrsClosed ==
    /\ Alive
    /\ gmPc = "select"
    /\ allErrBuf = 0
    /\ allClosed[2]
    /\ gmPc' = "closeMembersOut"
    /\ UNCHANGED <<roster, apiVars, fetchVars, gamVars, gmCur, outErrBuf,
                   outClosed, mainVars, nonPipeVars>>

\* case m, ok := <-chanMembersIn with !ok
GmMembersClosed ==
    /\ Alive
    /\ gmPc = "select"
    /\ allClosed[1]
    /\ gmPc' = "closeMembersOut"
    /\ UNCHANGED <<roster, apiVars, fetchVars, gamVars, gmCur, outErrBuf,
                   outClosed, mainVars, nonPipeVars>>

\* m.gitLog(ctx, opts)
GmGitLog(ok) ==
    /\ Alive
    /\ gmPc = "gitLog"
    /\ Fault(~ok)
    /\ IF ok
       THEN /\ gmPc' = "writeToDisk"
            /\ UNCHANGED <<outErrBuf, taskErr>>
       ELSE /\ outErrBuf < 1
            /\ outErrBuf' = outErrBuf + 1
            /\ taskErr' = taskErr \cup {gmCur}
            /\ gmPc' = "closeMembersOut"
    /\ UNCHANGED <<roster, apiVars, fetchVars, gamVars, gmCur, outClosed,
                   ewPc, handed, emitted, fetchErr, exitCode, nonPipeVars>>

\* m.writeToDisk(opts)
GmWriteToDisk(ok) ==
    /\ Alive
    /\ gmPc = "writeToDisk"
    /\ Fault(~ok)
    /\ IF ok
       THEN /\ gmPc' = "sendOut"
            /\ UNCHANGED <<outErrBuf, taskErr>>
       ELSE /\ outErrBuf < 1
            /\ outErrBuf' = outErrBuf + 1
            /\ taskErr' = taskErr \cup {gmCur}
            /\ gmPc' = "closeMembersOut"
    /\ UNCHANGED <<roster, apiVars, fetchVars, gamVars, gmCur, outClosed,
                   ewPc, handed, emitted, fetchErr, exitCode, nonPipeVars>>

\* chanMembersOut <- m, received by writeReport, which writes the row to
\* stdout; a csv write error makes writeReport return it and main exit
GmSendOut(csvOk) ==
    /\ Alive
    /\ gmPc = "sendOut"
    /\ Fault(~csvOk)
    /\ IF csvOk
       THEN /\ emitted' = [emitted EXCEPT ![gmCur] = @ + 1]
            /\ gmPc' = "select"
            /\ gmCur' = ""
            /\ UNCHANGED <<apiVars, fetchVars, gamVars, outErrBuf,
                           outClosed, ewPc, exitCode>>
       ELSE /\ ProcessExit(exitCodeWriteReport)
            /\ UNCHANGED emitted
    /\ UNCHANGED <<roster, handed, taskErr, fetchErr, nonPipeVars>>

\* the deferred function: close(chanMembersOut), close(chanErrsOut)
GmCloseMembersOut ==
    /\ Alive
    /\ gmPc = "closeMembersOut"
    /\ outClosed' = <<TRUE, FALSE>>
    /\ gmPc' = "closeErrsOut"
    /\ UNCHANGED <<roster, apiVars, fetchVars, gamVars, gmCur, outErrBuf,
                   mainVars, nonPipeVars>>

GmCloseErrsOut ==
    /\ Alive
    /\ gmPc = "closeErrsOut"
    /\ outClosed' = <<TRUE, TRUE>>
    /\ gmPc' = "done"
    /\ UNCHANGED <<roster, apiVars, fetchVars, gamVars, gmCur, outErrBuf,
                   mainVars, nonPipeVars>>

\* ---- main: the error-watching goroutine and writeReport

\* case err, ok := <-chanErrs with ok: print the error, os.Exit(1)
EwRecvErr ==
    /\ Alive
    /\ ewPc = "select"
    /\ outErrBuf > 0
    /\ ProcessExit(1)
    /\ UNCHANGED <<roster, handed, emitted, taskErr, fetchErr, faults,
                   nonPipeVars>>

\* case err, ok := <-chanErrs with !ok: the goroutine returns
EwErrsClosed ==
    /\ Alive
    /\ ewPc = "select"
    /\ outErrBuf = 0
    /\ outClosed[2]
    /\ ewPc' = "done"
    /\ UNCHANGED <<roster, apiVars, fetchVars, gamVars, gmVars, handed,
                   emitted, taskErr, fetchErr, faults, exitCode,
                   nonPipeVars>>

\* writeReport: case m, ok := <-chanMembers with !ok returns nil, and main
\* returns
WrMembersClosed ==
    /\ Alive
    /\ outClosed[1]
    /\ ProcessExit(0)
    /\ UNCHANGED <<roster, handed, emitted, taskErr, fetchErr, faults,
                   nonPipeVars>>

Next ==
    \/ ApiRelease
    \/ FetchAcquire
    \/ \E rep \in PipeResps : FetchReturn(rep)
    \/ FetchLoopEnd
    \/ FetchWgWait
    \/ FetchCloseLogins
    \/ FetchCloseErrs
    \/ \E l \in Logins : GamRecvLogin(l)
    \/ GamErrsClosed
    \/ GamLoginsClosed
    \/ GamRecvErr
    \/ GamSendErr
    \/ GamWgWait
    \/ GamCloseMembers
    \/ GamCloseErrs
    \/ \E l \in Logins, ok \in BOOLEAN : WLoadDisk(l, ok)
    \/ \E l \in Logins : WAcquire(l)
    \/ \E l \in Logins, rep \in PipeResps : WReturn(l, rep)
    \/ \E l \in Logins, ok \in BOOLEAN : WLoadRest(l, ok)
    \/ \E l \in Logins : WSendErr(l)
    \/ \E l \in Logins : WSendMember(l)
    \/ GmRecvErr
    \/ GmErrsClosed
    \/ GmMembersClosed
    \/ \E ok \in BOOLEAN : GmGitLog(ok)
    \/ \E ok \in BOOLEAN : GmWriteToDisk(ok)
    \/ \E csvOk \in BOOLEAN : GmSendOut(csvOk)
    \/ GmCloseMembersOut
    \/ GmCloseErrsOut
    \/ EwRecvErr
    \/ EwErrsClosed
    \/ WrMembersClosed

Spec == Init /\ [][Next]_vars

\* every goroutine that can take a step eventually takes one
FairSpec == Spec /\ WF_vars(Next)

\* C1: at every moment the number of remote calls issued between waitForAPI
\* and doneWithAPI (user fetches and roster page requests) is at most
\* api-max.
C1_ApiCallsBounded == InFlight <= ApiMax

C1_Witness ==
    /\ InFlight = ApiMax
    /\ \/ \E l \in Logins : wPc[l] = "waitAPI"
       \/ fPc = "loop" /\ fPage > 0

\* C2: whenever a per-identity task has reported an error the process does
\* not finish with exit status 0.
C2_ErrorMeansNonZeroExit == (exitCode = <<0>>) => (taskErr = {})

\* C6: in full-roster mode, absent errors, every admitted login is handed
\* to exactly one worker and gives exactly one emitted identity, the
\* members channel is closed only after all these workers have finished,
\* and the run terminates.
NoError == taskErr = {} /\ ~fetchErr /\ exitCode # <<exitCodeWriteReport>>

\* the logins the resume filter lets through: all when resume is disabled
Admitted == { l \in Logins : ~(resume /\ StringLess(LoginChars(l), anchor)) }

C6_Safety ==
    /\ \A l \in Logins : handed[l] <= 1 /\ emitted[l] <= handed[l]
    /\ allClosed[1] => \A l \in Logins : wPc[l] \in {"none", "done"}
    /\ (allClosed[1] /\ NoError) => \A l \in Admitted : wPc[l] = "done"
    /\ (exitCode = <<0>> /\ NoError) =>
           \A l \in Admitted : handed[l] = 1 /\ emitted[l] = 1

C6_RosterFanOut == []C6_Safety /\ <>(~Alive \/ ~NoError)

C6_Witness ==
    /\ exitCode = <<0>>
    /\ NoError
    /\ Len(roster) = 2
    /\ \A l \in Logins : emitted[l] = 1

\* C30: in the roster enumeration the retry count starts again from zero
\* after a page has been fetched successfully, so that each page request has
\* the full retry cap available.
C30_RetriesPerPage ==
    [][(fPc = "inCall" /\ fPage' > fPage) => fRetries' = 0]_vars

\* C20: in resume mode with anchor A, a login less than A in string
\* comparison never reaches a worker or the report, and every other login
\* of the roster is handed to a worker: once in every run that ends
\* without an error.
C20_ResumeFromAnchor ==
    resume =>
      /\ \A l \in Logins \ Admitted :
            /\ handed[l] = 0
            /\ wPc[l] \in {"none", "exited"}
            /\ emitted[l] = 0
      /\ \A l \in Admitted : handed[l] <= 1
      /\ (exitCode = <<0>> /\ NoError) =>
             \A l \in Admitted : handed[l] = 1 /\ emitted[l] = 1

\* a run in resume mode has ended: a login less than the anchor was
\* discovered and skipped, the login equal to the anchor is in the report
C20_Witness ==
    /\ resume
    /\ exitCode = <<0>>
    /\ NoError
    /\ \E l \in Logins : l \notin Admitted /\ handed[l] = 0
    /\ \E l \in Logins : LoginChars(l) = anchor /\ emitted[l] = 1

\* a worker has sent its error on chanErrs of getAllMembers
ErrorReported == \E l \in taskErr : wPc[l] = "done"

\* C27: once a per-identity task has reported an error, getAllMembers hands
\* no further login to a new worker.
C27_NoStartAfterError ==
    [][ErrorReported => handed' = handed]_vars

\* C34: fetchMemberLogins requests page 1 first; the page cursor moves only
\* when a response succeeded, and then to the page that follows (or to 0
\* after the last page, which ends the loop); the same page is requested
\* again only after a failure that retryAfter accepted; no request is made
\* once a response returned no next page.
C34_PageCursor ==
    /\ fPage = 1
    /\ [][exitCode' = <<>> =>
            /\ fPage' # fPage =>
                  /\ fPc = "inCall" /\ fPc' = "loop"
                  /\ fPage' = (IF fPage < Len(roster) THEN fPage + 1 ELSE 0)
                  /\ fRetries' = fRetries /\ ~fetchErr'
            /\ (fPc = "inCall" /\ fPc' = "loop" /\ fPage' = fPage) =>
                  fRetries' = fRetries + 1
            /\ fPc' = "inCall" => fPage' \in 1..Len(roster)
            /\ (fPc = "loop" /\ fPage = 0) => fPc' \in {"loop", "wgWait"}]_vars

\* both pages were requested, one of them twice, and the loop has ended
C34_Witness ==
    /\ exitCode = <<>>
    /\ Len(roster) = 2 /\ fPage = 0 /\ fRetries = 1 /\ fPc = "wgWait"
    /\ ~fetchErr

-----------------------------------------------------------------------------
(* The commit-log parser of gitChangesets / member.findChangesets.  The     *)
(* input is the sequence of lines bufio.Scanner yields; a line is a         *)
(* sequence of characters.                                                  *)

Whitespace == {" ", "\t"}

\* length of the longest run of characters of S in s that starts at p
RECURSIVE RunLen(_, _, _)
RunLen(s, p, S) ==
    IF p > Len(s) \/ s[p] \notin S THEN 0 ELSE 1 + RunLen(s, p + 1, S)

\* end of the text matched by (\-|\d+) at position p, 0 when it cannot match
NumOrDashEnd(s, p) ==
    IF p > Len(s) THEN 0
    ELSE IF s[p] = "-" THEN p
    ELSE IF RunLen(s, p, Digits) > 0 THEN p + RunLen(s, p, Digits) - 1
    ELSE 0

\* addDelRX.FindStringSubmatch(s) for ^(\-|\d+)\s+(\-|\d+)\s*([^\s].*)$ :
\* <<>> when the line does not match, else <<whole, add, del, path>>.  The
\* only place where the leftmost-first match is not the greedy one is a line
\* that ends in its second number: then the last digit of that number is
\* the path.
FindStringSubmatch(s) ==
    LET e1 == NumOrDashEnd(s, 1)
        w1 == RunLen(s, e1 + 1, Whitespace)
        q  == e1 + w1 + 1
        e2 == NumOrDashEnd(s, q)
        w2 == RunLen(s, e2 + 1, Whitespace)
        r  == e2 + w2 + 1
    IN  IF e1 = 0 \/ w1 = 0 \/ e2 = 0 THEN <<>>
        ELSE IF r <= Len(s)
             THEN <<s, SubSeq(s, 1, e1), SubSeq(s, q, e2),
                    SubSeq(s, r, Len(s))>>
        ELSE IF e2 > q
             THEN <<s, SubSeq(s, 1, e1), SubSeq(s, q, e2 - 1),
                    SubSeq(s, e2, Len(s))>>
        ELSE <<>>

MatchString(s) == FindStringSubmatch(s) # <<>>

\* The scanner: lines is the input, pos the number of lines consumed and
\* eof whether the last Scan() returned false.
Text(lines, sc) ==
    IF sc.eof \/ sc.pos = 0 THEN <<>> ELSE lines[sc.pos]

ScanOk(lines, sc) == ~sc.eof /\ sc.pos < Len(lines)

Scan(lines, sc) ==
    IF ScanOk(lines, sc) THEN [pos |-> sc.pos + 1, eof |-> FALSE]
    ELSE [pos |-> sc.pos, eof |-> TRUE]

RECURSIVE ScanN(_, _, _)
ScanN(lines, sc, n) ==
    IF n = 0 THEN sc ELSE ScanN(lines, Scan(lines, sc), n - 1)

\* the six header fields read with the scanner sitting on the short hash
ReadHeader(lines, sc) ==
    [Short       |-> Text(lines, sc),
     Long        |-> Text(lines, ScanN(lines, sc, 1)),
     Subject     |-> Text(lines, ScanN(lines, sc, 2)),
     AuthorName  |-> Text(lines, ScanN(lines, sc, 3)),
     AuthorEmail |-> Text(lines, ScanN(lines, sc, 4)),
     AuthorDate  |-> Atoi(Text(lines, ScanN(lines, sc, 5))),
     Changes     |-> <<>>]

\* the loop "for scan.Text() != """ over the numstat lines: the changeset
\* with its entries, the scanner after the loop and whether a line failed
\* to match
RECURSIVE ReadStats(_, _, _)
ReadStats(lines, sc, cur) ==
    IF Text(lines, sc) = <<>> THEN [cur |-> cur, sc |-> sc, err |-> FALSE]
    ELSE LET match == FindStringSubmatch(Text(lines, sc))
         IN  IF Len(match) # 4 THEN [cur |-> cur, sc |-> sc, err |-> TRUE]
             ELSE LET entry == [Add  |-> Atoi(match[2]),
                                Del  |-> Atoi(match[3]),
                                Path |-> match[4]]
                      cur2  == [cur EXCEPT !.Changes = Append(@, entry)]
                  IN  IF ~ScanOk(lines, sc)
                      THEN [cur |-> cur2, sc |-> Scan(lines, sc),
                            err |-> FALSE]
                      ELSE ReadStats(lines, Scan(lines, sc), cur2)

\* the mutant of ParseLoop: when the input ends after the header lines the
\* changeset read so far is kept
RECURSIVE ParseLoopKeepsPartial(_, _, _, _)
ParseLoopKeepsPartial(lines, sc, doNotScan, out) ==
    IF ~doNotScan /\ ~ScanOk(lines, sc)
    THEN [out |-> out, err |-> FALSE]
    ELSE LET sc1 == IF doNotScan THEN sc ELSE Scan(lines, sc)
             cur == ReadHeader(lines, sc1)
             sc6 == ScanN(lines, sc1, 5)
             sc7 == Scan(lines, sc6)
         IN  IF ~ScanOk(lines, sc6)
             THEN [out |-> Append(out, cur), err |-> FALSE]
             ELSE IF ~MatchString(Text(lines, sc7))
                  THEN ParseLoopKeepsPartial(lines, sc7, TRUE, out)
             ELSE LET st == ReadStats(lines, sc7, cur)
                  IN  IF st.err THEN [out |-> out, err |-> TRUE]
                      ELSE ParseLoopKeepsPartial(lines, st.sc, doNotScan,
                                                 Append(out, st.cur))

\* The outer loop "for ctx.Err() == nil": out is the sequence of changesets
\* that reach the end of the loop body, in input order.
RECURSIVE ParseLoop(_, _, _, _)
ParseLoop(lines, sc, doNotScan, out) ==
    IF ~doNotScan /\ ~ScanOk(lines, sc)
    THEN [out |-> out, err |-> FALSE]
    ELSE LET sc1 == IF doNotScan THEN sc ELSE Scan(lines, sc)
             cur == ReadHeader(lines, sc1)
             sc6 == ScanN(lines, sc1, 5)
             sc7 == Scan(lines, sc6)
         IN  IF ~ScanOk(lines, sc6) THEN [out |-> out, err |-> FALSE]
             ELSE IF ~MatchString(Text(lines, sc7))
                  THEN ParseLoop(lines, sc7, TRUE, out)
             ELSE LET st == ReadStats(lines, sc7, cur)
                  IN  IF st.err THEN [out |-> out, err |-> TRUE]
                      ELSE ParseLoop(lines, st.sc, doNotScan,
                                     Append(out, st.cur))

ParseLog(lines) ==
    ParseLoop(lines, [pos |-> 0, eof |-> FALSE], FALSE, <<>>)

\* ---- inputs: logs in the format git log writes

DigitChar(i) ==
    CASE i = 0 -> "0" [] i = 1 -> "1" [] i = 2 -> "2" [] i = 3 -> "3"
      [] i = 4 -> "4" [] i = 5 -> "5" [] i = 6 -> "6" [] i = 7 -> "7"
      [] i = 8 -> "8" [] i = 9 -> "9"

\* the six header lines of commit number i (1..9)
HeaderLines(i) ==
    << <<"a", "b", DigitChar(i)>>,
       <<"a", "b", DigitChar(i), "c", "d">>,
       <<"F", "i", "x", " ", DigitChar(i)>>,
       <<"N", DigitChar(i)>>,
       <<"e", DigitChar(i), "@", "x">>,
       <<"1", DigitChar(i)>> >>

\* the header fields of commit number i as the parser should report them
HeaderOf(i) ==
    [Short       |-> HeaderLines(i)[1],
     Long        |-> HeaderLines(i)[2],
     Subject     |-> HeaderLines(i)[3],
     AuthorName  |-> HeaderLines(i)[4],
     AuthorEmail |-> HeaderLines(i)[5],
     AuthorDate  |-> 10 + i]

HeaderFields(cs) ==
    [Short       |-> cs.Short,
     Long        |-> cs.Long,
     Subject     |-> cs.Subject,
     AuthorName  |-> cs.AuthorName,
     AuthorEmail |-> cs.AuthorEmail,
     AuthorDate  |-> cs.AuthorDate]

\* numstat blocks: none, one text file, a binary file and a text file, and
\* a block whose second line is not a numstat line
StatBlocks ==
    { <<>>,
      << <<"1", "\t", "2", "\t", "f">> >>,
      << <<"-", "\t", "-", "\t", "b">>, <<"1", "0", " ", "3", " ", "g">> >>,
      << <<"4", "\t", "0", "\t", "h">>, <<"?", "?">> >> }

\* one commit of the log: header, numstat block and, when blank is set, the
\* empty line that ends the block
CommitBlock(i, stats, blank) ==
    HeaderLines(i) \o stats \o (IF blank THEN << <<>> >> ELSE <<>>)

BlockShapes == StatBlocks \X BOOLEAN

\* a numstat block of three files
ThreeFiles ==
    << <<"1", "\t", "2", "\t", "f">>, <<"3", "\t", "0", "\t", "g">>,
       <<"0", "\t", "5", "\t", "h">> >>

\* the numstat blocks of a well-formed log
GoodStatBlocks ==
    { st \in StatBlocks : \A i \in 1..Len(st) : MatchString(st[i]) }
    \cup { ThreeFiles }

\* the well-formed logs of exactly n commits, numbered 1..n in input order,
\* of which tail come last: a block with numstat lines ends at a blank line,
\* or at the end of the input when it is the last one
RECURSIVE GoodLogsWith(_, _)
GoodLogsWith(n, tail) ==
    IF n = 0 THEN { <<>> }
    ELSE { l \o CommitBlock(n, sh[1], sh[2]) :
               l \in GoodLogsWith(n - 1, tail + 1),
               sh \in { s \in GoodStatBlocks \X BOOLEAN :
                          IF s[1] = <<>> THEN ~s[2] ELSE s[2] \/ tail = 0 } }

GoodLogs == UNION { GoodLogsWith(n, 0) : n \in 0..MaxLogCommits }

\* the logs of exactly n commits, numbered 1..n in input order
RECURSIVE LogsWith(_)
LogsWith(n) ==
    IF n = 0 THEN { <<>> }
    ELSE { l \o CommitBlock(n, sh[1], sh[2]) :
               l \in LogsWith(n - 1), sh \in BlockShapes }

\* a numstat block whose second line is not a numstat line
BadBlock == << <<"4", "\t", "0", "\t", "h">>, <<"?", "?">> >>

\* well-formed logs followed by one more commit, whose block is BadBlock
BadTailLogs ==
    UNION { { l \o CommitBlock(n + 1, BadBlock, TRUE) :
                l \in GoodLogsWith(n, 1) } : n \in 0..(MaxLogCommits - 1) }

\* well-formed logs followed by the first k lines of one more header
CutLogs ==
    UNION { { l \o SubSeq(HeaderLines(n + 1), 1, k) :
                l \in GoodLogsWith(n, 1), k \in 1..5 } :
            n \in 0..(MaxLogCommits - 1) }

Logs ==
    UNION { LogsWith(n) : n \in 0..MaxCommits } \cup GoodLogs
        \cup BadTailLogs \cup CutLogs

ParseInit ==
    /\ pLog \in Logs
    /\ pDone = FALSE
    /\ pOut = <<>>
    /\ pErr = FALSE

\* one mining pass over the output of one git log command
ParseRun ==
    /\ ~pDone
    /\ pDone' = TRUE
    /\ pOut' = ParseLog(pLog).out
    /\ pErr' = ParseLog(pLog).err
    /\ UNCHANGED <<pLog, retryVars, pipeVars, gitVars, cacheVars,
                   mineVars, affVars, moreVars>>

ParseNext == ParseRun

InitParse == ParseInit /\ MoreIdle /\ RetryIdle /\ PipeIdle /\ GitIdle /\ CacheIdle
    /\ MineIdle /\ AffIdle

SpecParse == InitParse /\ [][ParseNext]_vars

\* C10: for a log made of a commit with zero numstat lines immediately
\* followed by a second commit's header, the parser yields the second
\* commit with its own six header fields.
C10_Shape ==
    \E sh \in BlockShapes :
        /\ sh[1] # << <<"4", "\t", "0", "\t", "h">>, <<"?", "?">> >>
        /\ pLog = CommitBlock(1, <<>>, FALSE) \o CommitBlock(2, sh[1], sh[2])

C10_SecondCommitKept ==
    (pDone /\ C10_Shape) =>
        \E k \in 1..Len(pOut) : HeaderFields(pOut[k]) = HeaderOf(2)

\* C24: for every well-formed log, every changeset produced has its six
\* header fields equal to the six header lines of one single commit of the
\* input, also after a zero-file commit has been met earlier in the stream.
C24_HeadersOfOneCommit ==
    (pDone /\ pLog \in GoodLogs) =>
        \A k \in 1..Len(pOut) :
            \E i \in 1..MaxLogCommits : HeaderFields(pOut[k]) = HeaderOf(i)

\* commit number i of the log touches no file: its six header lines are
\* followed directly by the next header or by the end of the input
ZeroFile(log, i) ==
    \E p \in 1..Len(log) :
        /\ SubSeq(log, p, p + 5) = HeaderLines(i)
        /\ (p + 5 = Len(log) \/ log[p + 6] = HeaderLines(i + 1)[1])

\* C25: a commit of a well-formed log that touches zero files is present in
\* the parsed result, as a changeset with an empty file-change list.
C25_ZeroFileCommitKept ==
    (pDone /\ pLog \in GoodLogs) =>
        \A i \in 1..MaxLogCommits :
            ZeroFile(pLog, i) =>
                \E k \in 1..Len(pOut) :
                    /\ HeaderFields(pOut[k]) = HeaderOf(i)
                    /\ pOut[k].Changes = <<>>

\* the log holds, right after a numstat line, a non-empty line that is not
\* a numstat line
MalformedInBlock(log) ==
    \E p \in 2..Len(log) :
        /\ MatchString(log[p - 1])
        /\ log[p] # <<>>
        /\ ~MatchString(log[p])

\* C31: a non-empty line inside a numstat block that does not match the
\* numstat pattern makes the pass over that log fail with an error; the
\* logs looked at are well formed up to the block with that line.
C31_MalformedLineFails ==
    (pDone /\ pLog \in BadTailLogs /\ MalformedInBlock(pLog)) => pErr

\* the number of lines at the end of the log that are the beginning of a
\* header, 0 when the log ends at a commit boundary
PartialLen(log) ==
    LET ks == { k \in 1..5 :
                  /\ k <= Len(log)
                  /\ \E i \in 1..(MaxLogCommits + 1) :
                        SubSeq(log, Len(log) - k + 1, Len(log)) =
                            SubSeq(HeaderLines(i), 1, k) }
    IN  IF ks = {} THEN 0 ELSE CHOOSE k \in ks : TRUE

\* the log without the beginning of a header at its end
Boundary(log) == SubSeq(log, 1, Len(log) - PartialLen(log))

-----------------------------------------------------------------------------
(* The git subprocess pool: updateLocalCache starts one goroutine per user  *)
(* that runs writeGitLog, which runs gitChangesets for each candidate       *)
(* author string in turn; gitChangesets starts git log through git().       *)

GitUsers == {LoginPool[i] : i \in 1..MaxMiners}

\* outputs of git log: a commit with one file, a commit with no file, and a
\* commit whose numstat block holds a line that is not a numstat line
GitOutputs ==
    { CommitBlock(1, << <<"1", "\t", "2", "\t", "f">> >>, TRUE),
      CommitBlock(1, <<>>, FALSE),
      CommitBlock(1, << <<"4", "\t", "0", "\t", "h">>, <<"?", "?">> >>, TRUE) }

\* one output per candidate: the e-mail, or the e-mail and the name
CandidateOutputs == SeqsOfLen(GitOutputs, 1) \cup SeqsOfLen(GitOutputs, 2)

GitInit ==
    /\ gitMax \in 1..MaxGitMax
    /\ chanGit = 0
    /\ mLogs \in [GitUsers -> CandidateOutputs]
    /\ mPc = [u \in GitUsers |-> "git"]
    /\ proc = [u \in GitUsers |-> "none"]

\* git(): chanGit <- struct{}{} granted
GitAcquire(u) ==
    /\ mPc[u] = "git"
    /\ chanGit < gitMax
    /\ chanGit' = chanGit + 1
    /\ mPc' = [mPc EXCEPT ![u] = "start"]
    /\ UNCHANGED <<gitMax, mLogs, proc, retryVars, parseVars, pipeVars,
                   cacheVars, mineVars, affVars, moreVars>>

\* git(): cmd.StdoutPipe() and cmd.Start(); when one of them fails the token
\* is taken back and the error returned, which ends writeGitLog
GitStart(u, res) ==
    /\ mPc[u] = "start"
    /\ IF res = "ok"
       THEN /\ proc' = [proc EXCEPT ![u] = "running"]
            /\ mPc' = [mPc EXCEPT ![u] = "parse"]
            /\ UNCHANGED chanGit
       ELSE /\ chanGit' = chanGit - 1
            /\ mPc' = [mPc EXCEPT ![u] = "failed"]
            /\ UNCHANGED proc
    /\ UNCHANGED <<gitMax, mLogs, retryVars, parseVars, pipeVars,
                   cacheVars, mineVars, affVars, moreVars>>

\* the subprocess exits
ProcExit(u) ==
    /\ proc[u] = "running"
    /\ proc' = [proc EXCEPT ![u] = "exited"]
    /\ UNCHANGED <<gitMax, chanGit, mLogs, mPc, retryVars, parseVars,
                   pipeVars, cacheVars,
                   mineVars, affVars, moreVars>>

\* gitChangesets: the parse loop.  On a numstat parse error the function
\* returns the error: the deferred done() gives the token back and wait() is
\* not called.
GitParse(u) ==
    /\ mPc[u] = "parse"
    /\ IF ParseLog(Head(mLogs[u])).err
       THEN /\ chanGit' = chanGit - 1
            /\ mPc' = [mPc EXCEPT ![u] = "failed"]
       ELSE /\ mPc' = [mPc EXCEPT ![u] = "wait"]
            /\ UNCHANGED chanGit
    /\ UNCHANGED <<gitMax, mLogs, proc, retryVars, parseVars, pipeVars,
                   cacheVars, mineVars, affVars, moreVars>>

\* gitChangesets: return wait(), then the deferred done(); writeGitLog goes
\* on with its next candidate or ends
GitWait(u, waitOk) ==
    /\ mPc[u] = "wait"
    /\ proc[u] = "exited"
    /\ proc' = [proc EXCEPT ![u] = "none"]
    /\ chanGit' = chanGit - 1
    /\ mLogs' = [mLogs EXCEPT ![u] = Tail(@)]
    /\ mPc' = [mPc EXCEPT ![u] =
                  IF ~waitOk THEN "failed"
                  ELSE IF Tail(mLogs[u]) = <<>> THEN "done" ELSE "git"]
    /\ UNCHANGED <<gitMax, retryVars, parseVars, pipeVars,
                   cacheVars, mineVars, affVars, moreVars>>

GitNext ==
    \/ \E u \in GitUsers : GitAcquire(u)
    \/ \E u \in GitUsers, res \in {"ok", "pipeErr", "startErr"} : GitStart(u, res)
    \/ \E u \in GitUsers : ProcExit(u)
    \/ \E u \in GitUsers : GitParse(u)
    \/ \E u \in GitUsers, waitOk \in BOOLEAN : GitWait(u, waitOk)

InitGit == GitInit /\ MoreIdle /\ RetryIdle /\ ParseIdle /\ PipeIdle /\ CacheIdle
    /\ MineIdle /\ AffIdle

SpecGit == InitGit /\ [][GitNext]_vars

\* number of git subprocesses started and not yet exited
GitRunning == Cardinality({u \in GitUsers : proc[u] = "running"})

\* C3: at every moment the number of git subprocesses that have been
\* started and have not yet exited is at most the configured git-max.
C3_GitProcessesBounded == GitRunning <= gitMax

-----------------------------------------------------------------------------
(* updateLocalCache and generateReport: the users named on the command line *)
(* are fetched by getNamedMembers; updateLocalCache starts one goroutine    *)
(* per user, which runs writeUser, writeIssueLog and writeGitLog in         *)
(* parallel, joins them, runs the two entry updaters, joins them and sends  *)
(* the entry to generateReport.  Users are fetched live and git is mined   *)
(* (no-fetch-users and no-git are false).                                   *)

CacheUsers == {LoginPool[i] : i \in 1..MaxArgs}

ArgLists == {SubSeq(LoginPool, 1, n) : n \in 1..MaxArgs}

Args == {cArgs[i] : i \in 1..Len(cArgs)}

\* the goroutines wg2 waits for at its first and at its second Wait
SubTasks == {"writeUser", "writeIssueLog", "writeGitLog"}

Updaters == {"issueReport", "changesetReport"}

JobIdle == [k \in SubTasks \cup Updaters |-> "idle"]

CacheAlive == cExit = <<>>

CacheFault(bad) ==
    IF bad THEN cFaults < MaxFaults /\ cFaults' = cFaults + 1
    ELSE cFaults' = cFaults

\* os.Exit(1), or main returning: all goroutines and channels are gone
CacheExit(code) ==
    /\ cExit' = <<code>>
    /\ cSrc' = [u \in CacheUsers |-> "exited"]
    /\ cSrcPc' = "exited"
    /\ cSrcErrBuf' = 0
    /\ cSrcClosed' = <<FALSE, FALSE>>
    /\ cLoopPc' = "exited"
    /\ cPc' = [u \in CacheUsers |-> "exited"]
    /\ cJob' = [u \in CacheUsers |-> JobIdle]
    /\ cErrBuf' = 0
    /\ cClosed' = <<FALSE, FALSE>>

CacheInit ==
    /\ cArgs \in ArgLists
    /\ cSrc = [u \in CacheUsers |-> IF u \in Args THEN "getUser" ELSE "none"]
    /\ cSrcPc = "wgWait"
    /\ cSrcErrBuf = 0
    /\ cSrcClosed = <<FALSE, FALSE>>
    /\ cLoopPc = "select"
    /\ cPc = [u \in CacheUsers |-> "none"]
    /\ cJob = [u \in CacheUsers |-> JobIdle]
    /\ cErrBuf = 0
    /\ cClosed = <<FALSE, FALSE>>
    /\ cEmitted = [u \in CacheUsers |-> 0]
    /\ cTaskErr = {}
    /\ cFaults = 0
    /\ cExit = <<>>

\* ---- getNamedMembers

\* one goroutine per argument: getUser returns the user or an error
SrcGetUser(u, ok) ==
    /\ CacheAlive
    /\ cSrc[u] = "getUser"
    /\ CacheFault(~ok)
    /\ cSrc' = [cSrc EXCEPT ![u] = IF ok THEN "sendUser" ELSE "sendErr"]
    /\ cTaskErr' = IF ok THEN cTaskErr ELSE cTaskErr \cup {u}
    /\ UNCHANGED <<cArgs, cSrcPc, cSrcErrBuf, cSrcClosed, cLoopPc, cPc, cJob,
                   cErrBuf, cClosed, cEmitted, cExit, retryVars, parseVars,
                   gitVars, pipeVars,
                   mineVars, affVars, moreVars>>

\* chanErrs <- err on the channel of capacity 1, then the goroutine ends
SrcSendErr(u) ==
    /\ CacheAlive
    /\ cSrc[u] = "sendErr"
    /\ cSrcErrBuf < 1
    /\ cSrcErrBuf' = cSrcErrBuf + 1
    /\ cSrc' = [cSrc EXCEPT ![u] = "done"]
    /\ UNCHANGED <<cArgs, cSrcPc, cSrcClosed, cLoopPc, cPc, cJob, cErrBuf,
                   cClosed, cEmitted, cTaskErr, cFaults, cExit, retryVars,
                   parseVars, gitVars, pipeVars,
                   mineVars, affVars, moreVars>>

\* the deferred function: wg.Wait()
SrcWgWait ==
    /\ CacheAlive
    /\ cSrcPc = "wgWait"
    /\ \A u \in Args : cSrc[u] = "done"
    /\ cSrcPc' = "closeUsers"
    /\ UNCHANGED <<cArgs, cSrc, cSrcErrBuf, cSrcClosed, cLoopPc, cPc, cJob,
                   cErrBuf, cClosed, cEmitted, cTaskErr, cFaults, cExit,
                   retryVars, parseVars, gitVars, pipeVars,
                   mineVars, affVars, moreVars>>

\* close(chanUsers)
SrcCloseUsers ==
    /\ CacheAlive
    /\ cSrcPc = "closeUsers"
    /\ cSrcPc' = "closeErrs"
    /\ cSrcClosed' = <<TRUE, cSrcClosed[2]>>
    /\ UNCHANGED <<cArgs, cSrc, cSrcErrBuf, cLoopPc, cPc, cJob, cErrBuf,
                   cClosed, cEmitted, cTaskErr, cFaults, cExit, retryVars,
                   parseVars, gitVars, pipeVars,
                   mineVars, affVars, moreVars>>

\* close(chanErrs)
SrcCloseErrs ==
    /\ CacheAlive
    /\ cSrcPc = "closeErrs"
    /\ cSrcPc' = "done"
    /\ cSrcClosed' = <<cSrcClosed[1], TRUE>>
    /\ UNCHANGED <<cArgs, cSrc, cSrcErrBuf, cLoopPc, cPc, cJob, cErrBuf,
                   cClosed, cEmitted, cTaskErr, cFaults, cExit, retryVars,
                   parseVars, gitVars, pipeVars,
                   mineVars, affVars, moreVars>>

\* ---- the goroutine of updateLocalCache

\* case user, ok := <-chanUsers with ok: the rendezvous with the sender, then
\* wg.Add(1) and the user goroutine, which starts its three sub-goroutines
LoopRecvUser(u) ==
    /\ CacheAlive
    /\ cLoopPc = "select"
    /\ cSrc[u] = "sendUser"
    /\ cSrc' = [cSrc EXCEPT ![u] = "done"]
    /\ cPc' = [cPc EXCEPT ![u] = "wait1"]
    /\ cJob' = [cJob EXCEPT ![u] =
                   [k \in SubTasks \cup Updaters |->
                       IF k \in SubTasks THEN "run" ELSE "idle"]]
    /\ UNCHANGED <<cArgs, cSrcPc, cSrcErrBuf, cSrcClosed, cLoopPc, cErrBuf,
                   cClosed, cEmitted, cTaskErr, cFaults, cExit, retryVars,
                   parseVars, gitVars, pipeVars,
                   mineVars, affVars, moreVars>>

\* case user, ok := <-chanUsers with !ok: return
LoopUsersClosed ==
    /\ CacheAlive
    /\ cLoopPc = "select"
    /\ cSrcClosed[1]
    /\ cLoopPc' = "wgWait"
    /\ UNCHANGED <<cArgs, cSrc, cSrcPc, cSrcErrBuf, cSrcClosed, cPc, cJob,
                   cErrBuf, cClosed, cEmitted, cTaskErr, cFaults, cExit,
                   retryVars, parseVars, gitVars, pipeVars,
                   mineVars, affVars, moreVars>>

\* case err, ok := <-chanUsersErrs with ok.  (With !ok the select is entered
\* again and nothing changes.)
LoopRecvErr ==
    /\ CacheAlive
    /\ cLoopPc = "select"
    /\ cSrcErrBuf > 0
    /\ cSrcErrBuf' = cSrcErrBuf - 1
    /\ cLoopPc' = "sendErr"
    /\ UNCHANGED <<cArgs, cSrc, cSrcPc, cSrcClosed, cPc, cJob, cErrBuf,
                   cClosed, cEmitted, cTaskErr, cFaults, cExit, retryVars,
                   parseVars, gitVars, pipeVars,
                   mineVars, affVars, moreVars>>

\* chanErrs <- err; return
LoopSendErr ==
    /\ CacheAlive
    /\ cLoopPc = "sendErr"
    /\ cErrBuf < 1
    /\ cErrBuf' = cErrBuf + 1
    /\ cLoopPc' = "wgWait"
    /\ UNCHANGED <<cArgs, cSrc, cSrcPc, cSrcErrBuf, cSrcClosed, cPc, cJob,
                   cClosed, cEmitted, cTaskErr, cFaults, cExit, retryVars,
                   parseVars, gitVars, pipeVars,
                   mineVars, affVars, moreVars>>

\* defer wg.Wait(): every user goroutine that was started has ended
LoopWgWait ==
    /\ CacheAlive
    /\ cLoopPc = "wgWait"
    /\ \A u \in CacheUsers : cPc[u] \in {"none", "done"}
    /\ cLoopPc' = "closeErrs"
    /\ UNCHANGED <<cArgs, cSrc, cSrcPc, cSrcErrBuf, cSrcClosed, cPc, cJob,
                   cErrBuf, cClosed, cEmitted, cTaskErr, cFaults, cExit,
                   retryVars, parseVars, gitVars, pipeVars,
                   mineVars, affVars, moreVars>>

\* defer close(chanErrs)
LoopCloseErrs ==
    /\ CacheAlive
    /\ cLoopPc = "closeErrs"
    /\ cLoopPc' = "closeEntries"
    /\ cClosed' = <<cClosed[1], TRUE>>
    /\ UNCHANGED <<cArgs, cSrc, cSrcPc, cSrcErrBuf, cSrcClosed, cPc, cJob,
                   cErrBuf, cEmitted, cTaskErr, cFaults, cExit, retryVars,
                   parseVars, gitVars, pipeVars,
                   mineVars, affVars, moreVars>>

\* defer close(chanEntries)
LoopCloseEntries ==
    /\ CacheAlive
    /\ cLoopPc = "closeEntries"
    /\ cLoopPc' = "done"
    /\ cClosed' = <<TRUE, cClosed[2]>>
    /\ UNCHANGED <<cArgs, cSrc, cSrcPc, cSrcErrBuf, cSrcClosed, cPc, cJob,
                   cErrBuf, cEmitted, cTaskErr, cFaults, cExit, retryVars,
                   parseVars, gitVars, pipeVars,
                   mineVars, affVars, moreVars>>

\* ---- the goroutine of one user

\* writeUser, writeIssueLog, writeGitLog, updateEntryWithIssueReport or
\* updateEntryWithChangesetReport runs to its end; with an error the
\* goroutine goes on to send it
JobRun(u, k, ok) ==
    /\ CacheAlive
    /\ cJob[u][k] = "run"
    /\ CacheFault(~ok)
    /\ cJob' = [cJob EXCEPT ![u][k] = IF ok THEN "done" ELSE "sendErr"]
    /\ cTaskErr' = IF ok THEN cTaskErr ELSE cTaskErr \cup {u}
    /\ UNCHANGED <<cArgs, cSrc, cSrcPc, cSrcErrBuf, cSrcClosed, cLoopPc, cPc,
                   cErrBuf, cClosed, cEmitted, cExit, retryVars, parseVars,
                   gitVars, pipeVars,
                   mineVars, affVars, moreVars>>

\* chanErrs <- err, then wg2.Done()
JobSendErr(u, k) ==
    /\ CacheAlive
    /\ cJob[u][k] = "sendErr"
    /\ cErrBuf < 1
    /\ cErrBuf' = cErrBuf + 1
    /\ cJob' = [cJob EXCEPT ![u][k] = "done"]
    /\ UNCHANGED <<cArgs, cSrc, cSrcPc, cSrcErrBuf, cSrcClosed, cLoopPc, cPc,
                   cClosed, cEmitted, cTaskErr, cFaults, cExit, retryVars,
                   parseVars, gitVars, pipeVars,
                   mineVars, affVars, moreVars>>

\* a first wg2.Wait() that does not wait for the sub-goroutines
UserJoinNoWait(u) ==
    /\ CacheAlive
    /\ cPc[u] = "wait1"
    /\ cPc' = [cPc EXCEPT ![u] = "wait2"]
    /\ cJob' = [cJob EXCEPT ![u] =
                   [k \in SubTasks \cup Updaters |->
                       IF k \in Updaters THEN "run" ELSE cJob[u][k]]]
    /\ UNCHANGED <<cArgs, cSrc, cSrcPc, cSrcErrBuf, cSrcClosed, cLoopPc,
                   cErrBuf, cClosed, cEmitted, cTaskErr, cFaults, cExit,
                   retryVars, parseVars, gitVars, pipeVars,
                   mineVars, affVars, moreVars>>

\* the first wg2.Wait() returns; the entry is built, wg2.Add(2) and the two
\* updater goroutines start
UserJoin(u) ==
    /\ CacheAlive
    /\ cPc[u] = "wait1"
    /\ \A k \in SubTasks : cJob[u][k] = "done"
    /\ cPc' = [cPc EXCEPT ![u] = "wait2"]
    /\ cJob' = [cJob EXCEPT ![u] =
                   [k \in SubTasks \cup Updaters |->
                       IF k \in Updaters THEN "run" ELSE cJob[u][k]]]
    /\ UNCHANGED <<cArgs, cSrc, cSrcPc, cSrcErrBuf, cSrcClosed, cLoopPc,
                   cErrBuf, cClosed, cEmitted, cTaskErr, cFaults, cExit,
                   retryVars, parseVars, gitVars, pipeVars,
                   mineVars, affVars, moreVars>>

\* the second wg2.Wait() returns
UserJoinUpdaters(u) ==
    /\ CacheAlive
    /\ cPc[u] = "wait2"
    /\ \A k \in Updaters : cJob[u][k] = "done"
    /\ cPc' = [cPc EXCEPT ![u] = "send"]
    /\ UNCHANGED <<cArgs, cSrc, cSrcPc, cSrcErrBuf, cSrcClosed, cLoopPc, cJob,
                   cErrBuf, cClosed, cEmitted, cTaskErr, cFaults, cExit,
                   retryVars, parseVars, gitVars, pipeVars,
                   mineVars, affVars, moreVars>>

\* ---- generateReport and main

\* case entry, ok := <-chanEntries with ok: the rendezvous with
\* chanEntries <- entry of the user goroutine, then writeCSV and writeJSON;
\* a write error is returned and main calls os.Exit(1)
ReportRecvEntry(u, writeOk) ==
    /\ CacheAlive
    /\ cPc[u] = "send"
    /\ CacheFault(~writeOk)
    /\ IF writeOk
       THEN /\ cPc' = [cPc EXCEPT ![u] = "done"]
            /\ cEmitted' = [cEmitted EXCEPT ![u] = @ + 1]
            /\ UNCHANGED <<cSrc, cSrcPc, cSrcErrBuf, cSrcClosed, cLoopPc,
                           cJob, cErrBuf, cClosed, cExit>>
       ELSE /\ CacheExit(1)
            /\ UNCHANGED cEmitted
    /\ UNCHANGED <<cArgs, cTaskErr, retryVars, parseVars, gitVars, pipeVars,
                   mineVars, affVars, moreVars>>

\* case err := <-chanErrs with a buffered error: return err, os.Exit(1)
ReportRecvErr ==
    /\ CacheAlive
    /\ cErrBuf > 0
    /\ CacheExit(1)
    /\ UNCHANGED <<cArgs, cEmitted, cTaskErr, cFaults, retryVars, parseVars,
                   gitVars, pipeVars,
                   mineVars, affVars, moreVars>>

\* case err := <-chanErrs on the closed, drained channel: err is nil,
\* return nil, main returns
ReportErrsClosed ==
    /\ CacheAlive
    /\ cClosed[2]
    /\ cErrBuf = 0
    /\ CacheExit(0)
    /\ UNCHANGED <<cArgs, cEmitted, cTaskErr, cFaults, retryVars, parseVars,
                   gitVars, pipeVars,
                   mineVars, affVars, moreVars>>

\* case entry, ok := <-chanEntries with !ok: return nil, main returns
ReportEntriesClosed ==
    /\ CacheAlive
    /\ cClosed[1]
    /\ CacheExit(0)
    /\ UNCHANGED <<cArgs, cEmitted, cTaskErr, cFaults, retryVars, parseVars,
                   gitVars, pipeVars,
                   mineVars, affVars, moreVars>>

CacheNext ==
    \/ \E u \in CacheUsers, ok \in BOOLEAN : SrcGetUser(u, ok)
    \/ \E u \in CacheUsers : SrcSendErr(u)
    \/ SrcWgWait
    \/ SrcCloseUsers
    \/ SrcCloseErrs
    \/ \E u \in CacheUsers : LoopRecvUser(u)
    \/ LoopUsersClosed
    \/ LoopRecvErr
    \/ LoopSendErr
    \/ LoopWgWait
    \/ LoopCloseErrs
    \/ LoopCloseEntries
    \/ \E u \in CacheUsers, k \in SubTasks \cup Updaters, ok \in BOOLEAN :
           JobRun(u, k, ok)
    \/ \E u \in CacheUsers, k \in SubTasks \cup Updaters : JobSendErr(u, k)
    \/ \E u \in CacheUsers : UserJoin(u)
    \/ \E u \in CacheUsers : UserJoinUpdaters(u)
    \/ \E u \in CacheUsers, writeOk \in BOOLEAN : ReportRecvEntry(u, writeOk)
    \/ ReportRecvErr
    \/ ReportEntriesClosed
    \/ ReportErrsClosed

InitCache ==
    CacheInit /\ MoreIdle /\ RetryIdle /\ ParseIdle /\ GitIdle /\ PipeIdle /\ MineIdle
    /\ AffIdle

SpecCache == InitCache /\ [][CacheNext]_vars

\* C4: an entry for an identity is emitted only when the write of that
\* identity's record and its commit mining with the commit-data write have
\* both completed; none is emitted while one of them is still running.
C4_EmitAfterSideEffects ==
    [][\A u \in CacheUsers :
          cEmitted'[u] > cEmitted[u] =>
              /\ cJob[u]["writeUser"] = "done"
              /\ cJob[u]["writeGitLog"] = "done"]_vars

C4_Witness ==
    \E u \in CacheUsers :
        /\ cEmitted[u] = 1
        /\ cPc[u] = "done"
        /\ cJob[u]["writeUser"] = "done"
        /\ cJob[u]["writeGitLog"] = "done"

\* C5: no report entry is ever emitted for an identity for which one of its
\* steps (fetching the record, cache write, commit mining, ...) reported an
\* error.
C5_NoEntryForFailedIdentity ==
    \A u \in CacheUsers : u \in cTaskErr => cEmitted[u] = 0

\* ---- the earlier main, which is the consumer itself: fetchNamedMembers is
\* ---- the member source, and the sub-goroutines of a user (writeUser,
\* ---- writeGitLogForAuthor) send their errors on the chanErrs of the source

MainTasks == {"writeUser", "writeGitLog"}

\* case user, ok := <-chanUsers with ok: wg.Add(1), the user goroutine and
\* its two sub-goroutines
MainRecvUser(u) ==
    /\ CacheAlive
    /\ cLoopPc = "select"
    /\ cSrc[u] = "sendUser"
    /\ cSrc' = [cSrc EXCEPT ![u] = "done"]
    /\ cPc' = [cPc EXCEPT ![u] = "wait1"]
    /\ cJob' = [cJob EXCEPT ![u] =
                   [k \in SubTasks \cup Updaters |->
                       IF k \in MainTasks THEN "run" ELSE "idle"]]
    /\ UNCHANGED <<cArgs, cSrcPc, cSrcErrBuf, cSrcClosed, cLoopPc, cErrBuf,
                   cClosed, cEmitted, cTaskErr, cFaults, cExit, retryVars,
                   parseVars, gitVars, pipeVars, mineVars, affVars, moreVars>>

\* case err, ok := <-chanErrs with ok: the error is printed, then wg.Wait()
MainRecvErr ==
    /\ CacheAlive
    /\ cLoopPc = "select"
    /\ cSrcErrBuf > 0
    /\ cSrcErrBuf' = cSrcErrBuf - 1
    /\ cLoopPc' = "wgWait1"
    /\ UNCHANGED <<cArgs, cSrc, cSrcPc, cSrcClosed, cPc, cJob, cErrBuf,
                   cClosed, cEmitted, cTaskErr, cFaults, cExit, retryVars,
                   parseVars, gitVars, pipeVars, mineVars, affVars, moreVars>>

\* case user, ok := <-chanUsers with !ok: wg.Wait()
MainUsersClosed ==
    /\ CacheAlive
    /\ cLoopPc = "select"
    /\ cSrcClosed[1]
    /\ cLoopPc' = "wgWait0"
    /\ UNCHANGED <<cArgs, cSrc, cSrcPc, cSrcErrBuf, cSrcClosed, cPc, cJob,
                   cErrBuf, cClosed, cEmitted, cTaskErr, cFaults, cExit,
                   retryVars, parseVars, gitVars, pipeVars, mineVars, affVars,
                   moreVars>>

\* wg.Wait() returns when every user goroutine has ended: os.Exit(1) after
\* an error, os.Exit(0) after the close of chanUsers
MainWgWait ==
    /\ CacheAlive
    /\ cLoopPc \in {"wgWait0", "wgWait1"}
    /\ \A u \in CacheUsers : cPc[u] \in {"none", "done"}
    /\ CacheExit(IF cLoopPc = "wgWait1" THEN 1 ELSE 0)
    /\ UNCHANGED <<cArgs, cEmitted, cTaskErr, cFaults, retryVars, parseVars,
                   gitVars, pipeVars, mineVars, affVars, moreVars>>

\* chanErrs <- err of a sub-goroutine, on the channel fetchNamedMembers
\* made and closes: the send on the closed channel panics, which ends the
\* process with status 2
MainJobSendErr(u, k) ==
    /\ CacheAlive
    /\ cJob[u][k] = "sendErr"
    /\ IF cSrcClosed[2]
       THEN /\ CacheExit(2)
            /\ UNCHANGED <<cArgs, cEmitted, cTaskErr, cFaults>>
       ELSE /\ cSrcErrBuf < 1
            /\ cSrcErrBuf' = cSrcErrBuf + 1
            /\ cJob' = [cJob EXCEPT ![u][k] = "done"]
            /\ UNCHANGED <<cArgs, cSrc, cSrcPc, cSrcClosed, cLoopPc, cPc,
                           cErrBuf, cClosed, cEmitted, cTaskErr, cFaults,
                           cExit>>
    /\ UNCHANGED <<retryVars, parseVars, gitVars, pipeVars, mineVars, affVars,
                   moreVars>>

\* the deferred function of the user goroutine: wg2.Wait(), then wg.Done()
MainUserDone(u) ==
    /\ CacheAlive
    /\ cPc[u] = "wait1"
    /\ \A k \in MainTasks : cJob[u][k] = "done"
    /\ cPc' = [cPc EXCEPT ![u] = "done"]
    /\ cEmitted' = [cEmitted EXCEPT ![u] = @ + 1]
    /\ UNCHANGED <<cArgs, cSrc, cSrcPc, cSrcErrBuf, cSrcClosed, cLoopPc, cJob,
                   cErrBuf, cClosed, cTaskErr, cFaults, cExit, retryVars,
                   parseVars, gitVars, pipeVars, mineVars, affVars, moreVars>>

OldMainNext ==
    \/ \E u \in CacheUsers, ok \in BOOLEAN : SrcGetUser(u, ok)
    \/ \E u \in CacheUsers : SrcSendErr(u)
    \/ SrcWgWait
    \/ SrcCloseUsers
    \/ SrcCloseErrs
    \/ \E u \in CacheUsers : MainRecvUser(u)
    \/ MainRecvErr
    \/ MainUsersClosed
    \/ MainWgWait
    \/ \E u \in CacheUsers, k \in MainTasks, ok \in BOOLEAN : JobRun(u, k, ok)
    \/ \E u \in CacheUsers, k \in MainTasks : MainJobSendErr(u, k)
    \/ \E u \in CacheUsers : MainUserDone(u)

SpecOldMain == InitCache /\ [][OldMainNext]_vars

\* C39: no task sends on a channel that has been closed: an error of a
\* sub-task that comes after the member source has closed its channels
\* does not cause a send on a closed channel (which would end the process
\* with the status 2 of a panic).
C39_NoSendOnClosedChannel == cExit # <<2>>

-----------------------------------------------------------------------------
(* Commit mining of one member (member.gitLog, member.findChangesets) and   *)
(* its report row (member.csvFields), over successive runs of the program:  *)
(* a run loads the cached record, adds the directory's employment window,   *)
(* mines every candidate, appends the new changesets to the record, writes  *)
(* the record back and reports the totals.                                  *)

\* a dateRange; From and Until are <<>> for a nil pointer and <<t>> otherwise
DateRange(from, until) == [From |-> from, Until |-> until]

\* uniqueDateRangeSlice.append, scanning u from index i
RECURSIVE AppendDateRange(_, _, _)
AppendDateRange(u, d, i) ==
    IF i > Len(u) THEN Append(u, d)
    ELSE IF u[i].From # <<>> /\ d.From # <<>> /\ u[i].From = d.From
         THEN IF d.Until # <<>> THEN [u EXCEPT ![i].Until = d.Until] ELSE u
    ELSE IF u[i].Until # <<>> /\ d.Until # <<>> /\ u[i].Until = d.Until
         THEN IF d.From # <<>> THEN [u EXCEPT ![i].From = d.From] ELSE u
    ELSE AppendDateRange(u, d, i + 1)

\* the windows loadFromLDAP builds: whenCreated absent or present, and
\* whenChanged taken for an account under OU=Closed_Hold
LdapWindows ==
    { DateRange(<<>>, <<>>), DateRange(<<10>>, <<>>),
      DateRange(<<10>>, <<12>>), DateRange(<<11>>, <<>>) }

\* the loop over m.Employed that sets validCommit
ValidCommit(cur, employed) ==
    \E i \in 1..Len(employed) :
        /\ employed[i].From # <<>>
        /\ cur.AuthorDate > employed[i].From[1]
        /\ \/ employed[i].Until = <<>>
           \/ cur.AuthorDate < employed[i].Until[1]

\* changesets[cs.Long] = cs
MapPut(map, cs) ==
    [h \in DOMAIN map \cup {cs.Long} |-> IF h = cs.Long THEN cs ELSE map[h]]

\* the end of the loop body of findChangesets for the changesets that reach
\* it, in order, with the check of knownChangesets left out
RECURSIVE KeepChangesetsNoKnown(_, _, _, _, _)
KeepChangesetsNoKnown(parsed, i, known, changesets, employed) ==
    IF i > Len(parsed) THEN changesets
    ELSE KeepChangesetsNoKnown(parsed, i + 1, known,
             IF ValidCommit(parsed[i], employed)
             THEN MapPut(changesets, parsed[i]) ELSE changesets,
             employed)

\* the end of the loop body of findChangesets for the changesets that reach
\* it, in order: a known hash is ignored, a commit inside a window is stored
RECURSIVE KeepChangesets(_, _, _, _, _)
KeepChangesets(parsed, i, known, changesets, employed) ==
    IF i > Len(parsed) THEN changesets
    ELSE KeepChangesets(parsed, i + 1, known,
             IF parsed[i].Long \in known THEN changesets
             ELSE IF ValidCommit(parsed[i], employed)
                  THEN MapPut(changesets, parsed[i]) ELSE changesets,
             employed)

\* ---- inputs: what git log --author prints for a candidate

\* numstat blocks of a well-formed log end with an empty line
MineShapes == { <<st, st # <<>> >> : st \in StatBlocks }

\* the logs of the commits numbered in 1..n that the author filter selects
RECURSIVE MineLogsUpTo(_)
MineLogsUpTo(n) ==
    IF n = 0 THEN { <<>> }
    ELSE MineLogsUpTo(n - 1) \cup
         { l \o CommitBlock(n, sh[1], sh[2]) :
               l \in MineLogsUpTo(n - 1), sh \in MineShapes }

MineLogs == MineLogsUpTo(MaxCommits)

\* e-mail addresses of a member
EmailPool ==
    << <<"a", "@", "x">>, <<"b", "@", "x">>, <<"c", "@", "x">>,
       <<"d", "@", "x">> >>

\* member.findChangesets on the output out of git log: the map after the
\* call and whether it returned an error (a numstat line that does not
\* match, or the error of wait())
findChangesets(out, waitOk, known, changesets, employed) ==
    CHOOSE r \in
        { [changesets |-> KeepChangesets(p.out, 1, known, changesets,
                                         employed),
           parsed     |-> p.out,
           err        |-> p.err \/ ~waitOk] : p \in {ParseLog(out)} } : TRUE

\* the enumerations of the values of a map, in every order (Go iterates a
\* map in an unspecified order)
RECURSIVE MapOrders(_)
MapOrders(map) ==
    IF DOMAIN map = {} THEN { <<>> }
    ELSE UNION { { <<map[h]>> \o s :
                     s \in MapOrders([k \in DOMAIN map \ {h} |-> map[k]]) } :
                 h \in DOMAIN map }

RECURSIVE SumAdd(_, _)
SumAdd(changes, i) ==
    IF i > Len(changes) THEN 0 ELSE changes[i].Add + SumAdd(changes, i + 1)

RECURSIVE SumDel(_, _)
SumDel(changes, i) ==
    IF i > Len(changes) THEN 0 ELSE changes[i].Del + SumDel(changes, i + 1)

\* the loop of member.csvFields without the comparison of author dates: the
\* latest commit is the last one of the list
RECURSIVE csvFieldsLoopNoLatest(_, _, _)
csvFieldsLoopNoLatest(commits, i, acc) ==
    IF i > Len(commits) THEN acc
    ELSE LET c == commits[i]
         IN  csvFieldsLoopNoLatest(commits, i + 1,
                 [acc EXCEPT !.latestCommitSHA = c.Short,
                             !.latestCommitDate = c.AuthorDate,
                             !.additions = @ + SumAdd(c.Changes, 1),
                             !.deletions = @ + SumDel(c.Changes, 1)])

\* the loop of member.csvFields over m.Commits; the zero time.Time, which is
\* before every Unix time, is -1
RECURSIVE csvFieldsLoop(_, _, _)
csvFieldsLoop(commits, i, acc) ==
    IF i > Len(commits) THEN acc
    ELSE LET c    == commits[i]
             acc1 == IF c.AuthorDate > acc.latestCommitDate
                     THEN [acc EXCEPT !.latestCommitSHA = c.Short,
                                      !.latestCommitDate = c.AuthorDate]
                     ELSE acc
         IN  csvFieldsLoop(commits, i + 1,
                 [acc1 EXCEPT !.additions = @ + SumAdd(c.Changes, 1),
                              !.deletions = @ + SumDel(c.Changes, 1)])

csvFields(commits) ==
    csvFieldsLoop(commits, 1,
        [commits |-> Len(commits), additions |-> 0, deletions |-> 0,
         latestCommitSHA |-> <<>>, latestCommitDate |-> -1])

MineInit ==
    /\ gEmployed = <<>>
    /\ gCommits = <<>>
    /\ gCandidates = <<>>
    /\ gDone = 0
    /\ gParsed = {}
    /\ gChangesets = <<>>
    /\ gKnown = {}
    /\ gRow = <<>>
    /\ gPc = "load"
    /\ gRuns = 0

\* member.load: the record comes from the disk cache; loadFromLDAP appends a
\* window when the directory has exactly one entry; the e-mail list gives
\* the candidates
MineLoad(found, d, n) ==
    /\ gPc = "load"
    /\ gEmployed' = IF found THEN AppendDateRange(gEmployed, d, 1)
                    ELSE gEmployed
    /\ gCandidates' = SubSeq(EmailPool, 1, n)
    /\ gPc' = "gitLog"
    /\ UNCHANGED <<gCommits, gDone, gParsed, gChangesets, gKnown, gRow, gRuns,
                   retryVars, parseVars, gitVars, pipeVars, cacheVars,
                   affVars, moreVars>>

\* gitLog: the empty map, and knownChangesets from m.Commits
GitLogStart ==
    /\ gPc = "gitLog"
    /\ gChangesets' = <<>>
    /\ gKnown' = {gCommits[i].Long : i \in 1..Len(gCommits)}
    /\ gDone' = 0
    /\ gParsed' = {}
    /\ gPc' = "find"
    /\ UNCHANGED <<gEmployed, gCommits, gCandidates, gRow, gRuns, retryVars,
                   parseVars, gitVars, pipeVars, cacheVars,
                   affVars, moreVars>>

\* gitLog: findChangesets for the next e-mail; an error ends gitLog and the
\* run before anything is appended or written
GitLogFind(out, waitOk) ==
    /\ gPc = "find"
    /\ gDone < Len(gCandidates)
    /\ \E r \in {findChangesets(out, waitOk, gKnown, gChangesets, gEmployed)} :
           /\ gChangesets' = r.changesets
           /\ gParsed' = gParsed \cup
                              {r.parsed[i] : i \in 1..Len(r.parsed)}
           /\ gDone' = gDone + 1
           /\ gPc' = IF r.err THEN "failed"
                     ELSE IF gDone + 1 = Len(gCandidates) THEN "append"
                     ELSE "find"
    /\ UNCHANGED <<gEmployed, gCommits, gCandidates, gKnown, gRow, gRuns,
                   retryVars, parseVars, gitVars, pipeVars, cacheVars,
                   affVars, moreVars>>

\* gitLog: for _, commit := range changesets { m.Commits = append(...) }
GitLogAppend ==
    /\ gPc = "append"
    /\ \E order \in MapOrders(gChangesets) : gCommits' = gCommits \o order
    /\ gPc' = "report"
    /\ UNCHANGED <<gEmployed, gCandidates, gDone, gParsed, gChangesets,
                   gKnown, gRow, gRuns, retryVars, parseVars, gitVars,
                   pipeVars, cacheVars,
                   affVars, moreVars>>

\* getMembers writes the record to disk and hands it to writeReport, which
\* writes csvFields; the next run starts from the record written, and the
\* locals of gitLog are gone
MineReport ==
    /\ gPc = "report"
    /\ gRow' = csvFields(gCommits)
    /\ gRuns' = gRuns + 1
    /\ gPc' = IF gRuns + 1 < MaxRuns THEN "load" ELSE "done"
    /\ gCandidates' = <<>>
    /\ gDone' = 0
    /\ gParsed' = {}
    /\ gChangesets' = <<>>
    /\ gKnown' = {}
    /\ UNCHANGED <<gEmployed, gCommits, retryVars, parseVars, gitVars,
                   pipeVars, cacheVars,
                   affVars, moreVars>>

MineNext ==
    \/ \E found \in BOOLEAN, d \in LdapWindows, n \in 1..MaxCandidates :
           MineLoad(found, d, n)
    \/ GitLogStart
    \/ \E out \in MineLogs, waitOk \in BOOLEAN : GitLogFind(out, waitOk)
    \/ GitLogAppend
    \/ MineReport

InitMine ==
    MineInit /\ MoreIdle /\ RetryIdle /\ ParseIdle /\ GitIdle /\ PipeIdle /\ CacheIdle
    /\ AffIdle

SpecMine == InitMine /\ [][MineNext]_vars

\* C11: after commit mining completes for an identity, no two changesets of
\* its changeset list share the same long hash, whatever the candidate
\* outputs and the cached record are.
C11_LongHashesUnique ==
    \A i, j \in 1..Len(gCommits) :
        i # j => gCommits[i].Long # gCommits[j].Long

C11_Witness ==
    /\ gPc = "report"
    /\ gRuns >= 1
    /\ gDone = 2
    /\ Len(gCommits) >= 2
    /\ DOMAIN gChangesets # {}
    /\ \E c \in gParsed : c.Long \in gKnown

\* C13: for an identity with at least one employment window, a commit whose
\* author date lies outside all of its windows never appears in the
\* changeset list that is reported.
C13_OutOfWindowExcluded ==
    (gRow # <<>> /\ gPc \in {"load", "done"} /\ Len(gEmployed) >= 1) =>
        \A i \in 1..Len(gCommits) : ValidCommit(gCommits[i], gEmployed)

\* C14: for an identity with no employment window at all, mining applies no
\* date filter: every parsed commit that is not already known is retained
\* in the changeset list.
C14_NoWindowsNoFilter ==
    (gPc = "report" /\ gEmployed = <<>>) =>
        \A c \in gParsed :
            c.Long \notin gKnown =>
                \E i \in 1..Len(gCommits) : gCommits[i].Long = c.Long

RECURSIVE TotalAdd(_, _)
TotalAdd(commits, i) ==
    IF i > Len(commits) THEN 0
    ELSE SumAdd(commits[i].Changes, 1) + TotalAdd(commits, i + 1)

RECURSIVE TotalDel(_, _)
TotalDel(commits, i) ==
    IF i > Len(commits) THEN 0
    ELSE SumDel(commits[i].Changes, 1) + TotalDel(commits, i + 1)

\* C15: the addition and deletion totals reported for an identity are the
\* sums over exactly the changesets of its list, and the latest commit
\* reported is a changeset of the list with the greatest author date.
C15_TotalsOverRetained ==
    (gRow # <<>> /\ gPc \in {"load", "done"}) =>
        /\ gRow.commits = Len(gCommits)
        /\ gRow.additions = TotalAdd(gCommits, 1)
        /\ gRow.deletions = TotalDel(gCommits, 1)
        /\ IF gCommits = <<>> THEN gRow.latestCommitSHA = <<>>
           ELSE \E i \in 1..Len(gCommits) :
                    /\ gRow.latestCommitSHA = gCommits[i].Short
                    /\ gRow.latestCommitDate = gCommits[i].AuthorDate
                    /\ \A j \in 1..Len(gCommits) :
                           gCommits[j].AuthorDate <= gCommits[i].AuthorDate

C15_Witness ==
    /\ gRow # <<>>
    /\ gPc \in {"load", "done"}
    /\ Len(gCommits) >= 2
    /\ gRow.additions > 0
    /\ gCommits[1].AuthorDate > gCommits[2].AuthorDate
    /\ gRow.latestCommitSHA = gCommits[1].Short

\* ---- writeGitLog and gitChangesets: the mining of one user that writes
\* the commits directory, without cached record and without date filter

\* the changeset of gitChangesets, which also totals its entries
OldChangeset(cs) ==
    [Short       |-> cs.Short,
     Long        |-> cs.Long,
     Subject     |-> cs.Subject,
     AuthorName  |-> cs.AuthorName,
     AuthorEmail |-> cs.AuthorEmail,
     AuthorDate  |-> cs.AuthorDate,
     Additions   |-> SumAdd(cs.Changes, 1),
     Deletions   |-> SumDel(cs.Changes, 1),
     Changes     |-> cs.Changes]

\* changesets[cur.Long] = cur at the end of the loop body, for the
\* changesets that reach it, in order
RECURSIVE PutChangesets(_, _, _)
PutChangesets(parsed, i, changesets) ==
    IF i > Len(parsed) THEN changesets
    ELSE PutChangesets(parsed, i + 1,
                       MapPut(changesets, OldChangeset(parsed[i])))

\* gitChangesets on the output out of git log
gitChangesets(out, waitOk, changesets) ==
    CHOOSE r \in
        { [changesets |-> PutChangesets(p.out, 1, changesets),
           err        |-> p.err \/ ~waitOk] : p \in {ParseLog(out)} } : TRUE

\* the candidates of writeGitLog: the e-mail when there is one, then the
\* name when it has at least eight characters and a space
OldCandidates(email, name) ==
    (IF email # <<>> THEN <<email>> ELSE <<>>) \o
    (IF Len(name) >= MinNameLen /\ \E i \in 1..Len(name) : name[i] = " "
     THEN <<name>> ELSE <<>>)

UserEmails == {<<>>, EmailPool[1]}

UserNames ==
    { <<>>, <<"A", "l", " ", "B">>,
      <<"A", "l", "i", "c", "e", " ", "B", "o">>,
      <<"A", "l", "i", "c", "e", "B", "o", "b">> }

\* the loop of writeGitLog over the map, in the order the map is iterated
RECURSIVE changesetReportLoop(_, _, _)
changesetReportLoop(order, i, csr) ==
    IF i > Len(order) THEN csr
    ELSE LET cur  == order[i]
             csr1 == [csr EXCEPT !.Additions = @ + cur.Additions,
                                 !.Deletions = @ + cur.Deletions]
         IN  changesetReportLoop(order, i + 1,
                 IF cur.AuthorDate > csr1.LatestCommitDate
                 THEN [csr1 EXCEPT !.LatestCommitSHA = cur.Long,
                                   !.LatestCommitDate = cur.AuthorDate]
                 ELSE csr1)

OldMineInit ==
    /\ gEmployed = <<>>
    /\ gCommits = <<>>
    /\ gCandidates \in {OldCandidates(e, n) : e \in UserEmails, n \in UserNames}
    /\ gDone = 0
    /\ gParsed = {}
    /\ gChangesets = <<>>
    /\ gKnown = {}
    /\ gRow = <<>>
    /\ gPc = "gitChangesets"
    /\ gRuns = 0

\* writeGitLog: gitChangesets for the next candidate; an error is returned
\* at once
OldGitChangesets(out, waitOk) ==
    /\ gPc = "gitChangesets"
    /\ gDone < Len(gCandidates)
    /\ \E r \in {gitChangesets(out, waitOk, gChangesets)} :
           /\ gChangesets' = r.changesets
           /\ gPc' = IF r.err THEN "failed" ELSE "gitChangesets"
    /\ gDone' = gDone + 1
    /\ UNCHANGED <<gEmployed, gCommits, gCandidates, gParsed, gKnown, gRow,
                   gRuns, retryVars, parseVars, gitVars, pipeVars, cacheVars,
                   affVars, moreVars>>

\* writeGitLog after the candidates: the stale directory is removed; with
\* changesets, one file per changeset and data.json with the totals are
\* written, and an error of a file ends it
OldWriteReport(ok) ==
    /\ gPc = "gitChangesets"
    /\ gDone = Len(gCandidates)
    /\ IF DOMAIN gChangesets = {}
       THEN gRow' = <<>> /\ gPc' = "done"
       ELSE IF ~ok THEN gRow' = <<>> /\ gPc' = "failed"
       ELSE /\ \E order \in MapOrders(gChangesets) :
                  gRow' = changesetReportLoop(order, 1,
                              [Additions |-> 0, Deletions |-> 0,
                               LatestCommitSHA |-> <<>>,
                               LatestCommitDate |-> -1])
            /\ gPc' = "done"
    /\ UNCHANGED <<gEmployed, gCommits, gCandidates, gDone, gParsed,
                   gChangesets, gKnown, gRuns, retryVars, parseVars, gitVars,
                   pipeVars, cacheVars,
                   affVars, moreVars>>

OldMineNext ==
    \/ \E out \in MineLogs, waitOk \in BOOLEAN : OldGitChangesets(out, waitOk)
    \/ \E ok \in BOOLEAN : OldWriteReport(ok)

InitOldMine ==
    OldMineInit /\ MoreIdle /\ RetryIdle /\ ParseIdle /\ GitIdle /\ PipeIdle /\ CacheIdle
    /\ AffIdle

SpecOldMine == InitOldMine /\ [][OldMineNext]_vars

\* C12: when the outputs of two candidates both hold a commit with the same
\* long hash, the changeset kept is the one parsed from the earlier
\* candidate: a later candidate never overwrites an entry that is already
\* in the running map.
C12_FirstSeenWins ==
    [][(gPc = "gitChangesets" /\ gPc' = "gitChangesets") =>
          \A h \in DOMAIN gChangesets : gChangesets'[h] = gChangesets[h]]_vars

-----------------------------------------------------------------------------
(* The affiliation table (devAffiliates.decode, getDevAffiliations) and the *)
(* e-mail merges of one user: loadOrGetUser with supplementWithAffiliates   *)
(* and supplementWithLDAP, and member.load with member.loadFromAffiliates.  *)
(* The table is a Go map from keys to pointers: keys maps a key to the name *)
(* of the object it points to, objs maps that name to the object, so that   *)
(* an update of the object is seen through every key.  The context is the   *)
(* one of main, which is never cancelled.                                   *)

RangeOf(s) == {s[i] : i \in 1..Len(s)}

\* strings.Index(s, c) for a one-character c, counted from 1; 0 when absent
IndexOf(s, c) ==
    IF \E i \in 1..Len(s) : s[i] = c
    THEN CHOOSE i \in 1..Len(s) : s[i] = c /\ \A j \in 1..(i - 1) : s[j] # c
    ELSE 0

RECURSIVE Split(_, _)
Split(s, sep) ==
    IF IndexOf(s, sep) = 0 THEN <<s>>
    ELSE <<SubSeq(s, 1, IndexOf(s, sep) - 1)>> \o
         Split(SubSeq(s, IndexOf(s, sep) + 1, Len(s)), sep)

RECURSIVE Replace(_, _, _)
Replace(s, old, new) ==
    IF s = <<>> THEN <<>>
    ELSE <<IF Head(s) = old THEN new ELSE Head(s)>> \o
         Replace(Tail(s), old, new)

RECURSIVE TrimSpace(_)
TrimSpace(s) ==
    IF s = <<>> THEN s
    ELSE IF Head(s) \in Whitespace THEN TrimSpace(Tail(s))
    ELSE IF s[Len(s)] \in Whitespace
         THEN TrimSpace(SubSeq(s, 1, Len(s) - 1))
    ELSE s

\* devRX.FindStringSubmatch(line) for ^([^:]+):\s*(.+)$ : <<>> when the line
\* does not match, else <<name, emails>>.  The name ends at the first
\* colon; \s* takes the white space after it, and gives its last character
\* back to (.+) when nothing else follows.
devRX(line) ==
    LET p == IndexOf(line, ":")
        w == RunLen(line, p + 1, Whitespace)
    IN  IF p < 2 \/ p = Len(line) THEN <<>>
        ELSE IF p + w < Len(line)
             THEN <<SubSeq(line, 1, p - 1), SubSeq(line, p + w + 1, Len(line))>>
        ELSE <<SubSeq(line, 1, p - 1), SubSeq(line, Len(line), Len(line))>>

\* coRX.FindStringSubmatch(line) for
\* ^\t(.+?)(?:\suntil\s(\d{4}-\d{2}-\d{2}))?$ : <<>> when the line does not
\* match, else <<name, date>> with date <<>> when the group did not take
\* part.  The group has a fixed length of 17 characters and has to end the
\* line, so the lazy name is what is in front of it, or the whole line.
coRX(line) ==
    LET n == Len(line)
        t == SubSeq(line, n - 16, n)
        dashed(d) == /\ \A i \in {1, 2, 3, 4, 6, 7, 9, 10} : d[i] \in Digits
                     /\ d[5] = "-" /\ d[8] = "-"
        until == /\ n >= 19
                 /\ t[1] \in Whitespace
                 /\ SubSeq(t, 2, 6) = <<"u", "n", "t", "i", "l">>
                 /\ t[7] \in Whitespace
                 /\ dashed(SubSeq(t, 8, 17))
    IN  IF n < 2 \/ line[1] # "\t" THEN <<>>
        ELSE IF until THEN <<SubSeq(line, 2, n - 17), SubSeq(t, 8, 17)>>
        ELSE <<SubSeq(line, 2, n), <<>> >>

\* time.Parse("2006-01-02", s) of ten characters \d{4}-\d{2}-\d{2}: <<>> for
\* the error (month or day out of range), else <<year, month, day>>
timeParse(s) ==
    LET y == DecVal(SubSeq(s, 1, 4))
        m == DecVal(SubSeq(s, 6, 7))
        d == DecVal(SubSeq(s, 9, 10))
        leap == y % 4 = 0 /\ (y % 100 # 0 \/ y % 400 = 0)
        days == IF m = 2 THEN (IF leap THEN 29 ELSE 28)
                ELSE IF m \in {4, 6, 9, 11} THEN 30 ELSE 31
    IN  IF m \in 1..12 /\ d \in 1..days THEN <<y, m, d>> ELSE <<>>

\* time.Time.IsZero
IsZero(t) == t = <<1, 1, 1>>

\* the e-mails of a header line: split at the commas, every ! replaced by
\* @, white space trimmed
RECURSIVE decodeEmails(_)
decodeEmails(vs) ==
    IF vs = <<>> THEN <<>>
    ELSE <<TrimSpace(Replace(Head(vs), "!", "@"))>> \o decodeEmails(Tail(vs))

\* the inner loop of decode from line i on: the companies read, the index
\* of the line that ended the loop (past the end when the scanner is
\* exhausted) and whether time.Parse failed
RECURSIVE decodeCompanies(_, _, _)
decodeCompanies(lines, i, cos) ==
    IF i > Len(lines) THEN [cos |-> cos, i |-> i, err |-> FALSE]
    ELSE LET coMatch == coRX(lines[i])
             t == timeParse(coMatch[2])
         IN  IF coMatch = <<>> THEN [cos |-> cos, i |-> i, err |-> FALSE]
             ELSE IF coMatch[2] = <<>>
                  THEN decodeCompanies(lines, i + 1,
                           Append(cos, [Name |-> coMatch[1], Until |-> <<>>]))
             ELSE IF t = <<>> THEN [cos |-> cos, i |-> i, err |-> TRUE]
             ELSE decodeCompanies(lines, i + 1,
                      Append(cos, [Name |-> coMatch[1],
                                   Until |-> IF IsZero(t) THEN <<>> ELSE t]))

EmptyTable == [n |-> 0, objs |-> <<>>, keys |-> <<>>, err |-> FALSE]

\* the outer loop of decode with the cursor on the header line i
RECURSIVE decodeLoop(_, _, _)
decodeLoop(lines, i, da) ==
    LET devMatch == devRX(lines[i])
        found == devMatch[1] \in DOMAIN da.keys
        obj == IF found THEN da.keys[devMatch[1]] ELSE devMatch[1]
        dev == IF found
               THEN [da.objs[obj] EXCEPT !.Occurrences = @ + 1]
               ELSE [Occurrences |-> 1, Name |-> devMatch[1],
                     Emails |-> <<>>, Companies |-> <<>>]
        emails == dev.Emails \o decodeEmails(Split(devMatch[2], ","))
        keys == [k \in DOMAIN da.keys \cup {obj} \cup RangeOf(emails) |->
                    IF k \in RangeOf(emails) \/ k \notin DOMAIN da.keys
                    THEN obj ELSE da.keys[k]]
    IN  IF devMatch = <<>> THEN [da EXCEPT !.n = 0, !.err = TRUE]
        ELSE CHOOSE r \in
            { IF co.err THEN [next EXCEPT !.n = 0, !.err = TRUE]
              ELSE IF co.i > Len(lines) THEN next
              ELSE decodeLoop(lines, co.i, next) :
                <<co, next>> \in
                  { <<c, [n |-> da.n + (IF found THEN 0 ELSE 1),
                          objs |-> (obj :> [dev EXCEPT
                                      !.Emails = emails,
                                      !.Companies = @ \o c.cos]) @@ da.objs,
                          keys |-> keys,
                          err |-> FALSE]>> :
                    c \in {decodeCompanies(lines, i + 1, <<>>)} } } : TRUE

\* devAffiliates.decode on the lines of the file: the first line is the
\* leading comment, the second the first header
decode(lines) ==
    IF Len(lines) < 2 THEN [EmptyTable EXCEPT !.err = TRUE]
    ELSE decodeLoop(lines, 2, EmptyTable)

\* ---- inputs: files written in the format of the reference file

Mail(raw, clean) == [raw |-> raw, clean |-> clean]

\* the elements of the comma-separated list of a header as written, and the
\* address each stands for
MailA == Mail(<<"a", "!", "x">>, <<"a", "@", "x">>)
MailB == Mail(<<"b", "!", "x">>, <<"b", "@", "x">>)
MailC == Mail(<<"c", "!", "x">>, <<"c", "@", "x">>)
MailASpaced == Mail(<<" ", "a", "!", "x">>, <<"a", "@", "x">>)
MailEmpty == Mail(<<>>, <<>>)

MailLists == { <<MailA>>, <<MailC, MailASpaced>>, <<MailB, MailEmpty>> }

AffNames == { <<"A", "l", "i", "c", "e", " ", "B", "o">>,
              <<"C", "a", "r", "o", "l", " ", "D", "i">> }

Co(name, raw, until) == [Name |-> name, raw |-> raw, Until |-> until]

CoAcme == Co(<<"A", "c", "m", "e">>, <<>>, <<>>)
CoIBM == Co(<<"I", "B", "M">>,
            <<"2", "0", "2", "0", "-", "0", "1", "-", "3", "1">>,
            <<2020, 1, 31>>)
\* a company line whose date time.Parse rejects
CoBadDate == Co(<<"I", "B", "M">>,
                <<"2", "0", "2", "0", "-", "1", "3", "-", "0", "1">>,
                <<>>)

CoLists == { <<>>, <<CoAcme>>, <<CoAcme, CoIBM>>, <<CoBadDate>> }

AffBlocks ==
    { [name |-> nm, mails |-> ms, cos |-> cs] :
        nm \in AffNames, ms \in MailLists, cs \in CoLists }

RECURSIVE Join(_, _)
Join(elems, sep) ==
    IF elems = <<>> THEN <<>>
    ELSE IF Len(elems) = 1 THEN elems[1]
    ELSE elems[1] \o <<sep>> \o Join(Tail(elems), sep)

HeaderLine(b) ==
    b.name \o <<":", " ">> \o
    Join([i \in 1..Len(b.mails) |-> b.mails[i].raw], ",")

CompanyLine(c) ==
    <<"\t">> \o c.Name \o
    (IF c.raw = <<>> THEN <<>>
     ELSE <<" ", "u", "n", "t", "i", "l", " ">> \o c.raw)

RECURSIVE FileLines(_)
FileLines(blocks) ==
    IF blocks = <<>> THEN << <<"#">> >>
    ELSE FileLines(SubSeq(blocks, 1, Len(blocks) - 1)) \o
         <<HeaderLine(blocks[Len(blocks)])>> \o
         [i \in 1..Len(blocks[Len(blocks)].cos) |->
             CompanyLine(blocks[Len(blocks)].cos[i])]

AffFiles == UNION { SeqsOfLen(AffBlocks, n) : n \in 0..MaxBlocks }

\* the users: display name, primary e-mail and cached e-mail list of the
\* profile, and the mail attribute of the directory entry (<<>> for none)
UserNamePool == AffNames \cup { <<>> }
UserMailPool == { <<>>, MailA.clean, MailC.clean }
CachedPool == { <<>>, <<MailA.clean>> }
LdapMailPool == { <<>>, EmailPool[4] }

\* ---- the merges

\* uniqueStringSlice.append
uniqueStringSliceAppend(u, s) ==
    IF s = <<>> \/ s \in RangeOf(u) THEN u ELSE Append(u, s)

\* the mutant of appendUnknown: the known check is dropped
appendAll(emails, vs) == emails \o vs

\* for _, v := range a.Emails: v is appended unless knownEmails has it.
\* knownEmails holds the elements of user.Emails throughout loadOrGetUser.
RECURSIVE appendUnknown(_, _)
appendUnknown(emails, vs) ==
    IF vs = <<>> THEN emails
    ELSE IF Head(vs) \in RangeOf(emails) THEN appendUnknown(emails, Tail(vs))
    ELSE appendUnknown(Append(emails, Head(vs)), Tail(vs))

\* affiliates[key] with a.Occurrences == 1: the e-mails of the affiliation,
\* <<>> when there is none or it occurs more than once
Unambiguous(da, key) ==
    IF key \in DOMAIN da.keys /\ da.objs[da.keys[key]].Occurrences = 1
    THEN da.objs[da.keys[key]].Emails ELSE <<>>

\* the mutant of supplementWithAffiliates: Occurrences is not looked at
supplementWithAffiliatesAnyCount(emails, name, primary, da) ==
    LET any(key) == IF key \in DOMAIN da.keys
                    THEN da.objs[da.keys[key]].Emails ELSE <<>>
        byName == IF Len(name) >= MinNameLen \/ " " \in RangeOf(name)
                  THEN appendUnknown(emails, any(name)) ELSE emails
    IN  IF primary # <<>> THEN appendUnknown(byName, any(primary))
        ELSE byName

\* supplementWithAffiliates: user.Emails after the call
supplementWithAffiliates(emails, name, primary, da) ==
    LET byName == IF Len(name) >= MinNameLen \/ " " \in RangeOf(name)
                  THEN appendUnknown(emails, Unambiguous(da, name))
                  ELSE emails
    IN  IF primary # <<>>
        THEN appendUnknown(byName, Unambiguous(da, primary))
        ELSE byName

RECURSIVE appendUnique(_, _)
appendUnique(u, vs) ==
    IF vs = <<>> THEN u
    ELSE appendUnique(uniqueStringSliceAppend(u, Head(vs)), Tail(vs))

\* member.loadFromAffiliates: m.Emails after the call.  The objects of the
\* table have distinct names, so the order of the range does not matter.
loadFromAffiliates(emails, name, da) ==
    LET hits == { da.keys[k] : k \in DOMAIN da.keys }
        match == { o \in hits : da.objs[o].Name = name
                                /\ da.objs[o].Occurrences = 1 }
    IN  IF match = {} THEN emails
        ELSE appendUnique(emails, da.objs[CHOOSE o \in match : TRUE].Emails)

\* ---- actions

AffInit ==
    /\ aBlocks \in AffFiles
    /\ aFile = FileLines(aBlocks)
    /\ aTable = <<>>
    /\ aUser = <<>>
    /\ aEmails = <<>>
    /\ aPc = "decode"

\* getDevAffiliations: an error of decode ends the program
GetDevAffiliations ==
    /\ aPc = "decode"
    /\ \E da \in {decode(aFile)} :
         /\ aTable' = da
         /\ aPc' = IF da.err THEN "failed" ELSE "load"
    /\ UNCHANGED <<aBlocks, aFile, aUser, aEmails>>
    /\ UNCHANGED <<retryVars, parseVars, gitVars, pipeVars, cacheVars,
                   mineVars, moreVars>>

\* loadOrGetUser up to the call of supplementWithAffiliates: the cached
\* e-mails are kept, the primary e-mail is added when not empty and unknown
LoadOrGetUser(name, primary, cached) ==
    /\ aPc = "load"
    /\ aUser' = [name |-> name, primary |-> primary, cached |-> cached]
    /\ aEmails' = IF primary # <<>> /\ primary \notin RangeOf(cached)
                  THEN Append(cached, primary) ELSE cached
    /\ aPc' = "supplementWithAffiliates"
    /\ UNCHANGED <<aBlocks, aFile, aTable>>
    /\ UNCHANGED <<retryVars, parseVars, gitVars, pipeVars, cacheVars,
                   mineVars, moreVars>>

SupplementWithAffiliates ==
    /\ aPc = "supplementWithAffiliates"
    /\ aEmails' = supplementWithAffiliates(aEmails, aUser.name, aUser.primary,
                                           aTable)
    /\ aPc' = "supplementWithLDAP"
    /\ UNCHANGED <<aBlocks, aFile, aTable, aUser>>
    /\ UNCHANGED <<retryVars, parseVars, gitVars, pipeVars, cacheVars,
                   mineVars, moreVars>>

\* supplementWithLDAP with one entry found by the login: its mail is added
\* when not empty and unknown
SupplementWithLDAP(mail) ==
    /\ aPc = "supplementWithLDAP"
    /\ aEmails' = IF mail # <<>> /\ mail \notin RangeOf(aEmails)
                  THEN Append(aEmails, mail) ELSE aEmails
    /\ aPc' = "done"
    /\ UNCHANGED <<aBlocks, aFile, aTable, aUser>>
    /\ UNCHANGED <<retryVars, parseVars, gitVars, pipeVars, cacheVars,
                   mineVars, moreVars>>

\* member.load up to the call of loadFromAffiliates: loadFromDisk,
\* loadFromGitHub (name, primary e-mail) and loadFromLDAP (mail)
MemberLoad(name, primary, cached, mail) ==
    /\ aPc = "load"
    /\ aUser' = [name |-> name, primary |-> primary, cached |-> cached]
    /\ aEmails' = uniqueStringSliceAppend(
                      uniqueStringSliceAppend(cached, primary), mail)
    /\ aPc' = "loadFromAffiliates"
    /\ UNCHANGED <<aBlocks, aFile, aTable>>
    /\ UNCHANGED <<retryVars, parseVars, gitVars, pipeVars, cacheVars,
                   mineVars, moreVars>>

LoadFromAffiliates ==
    /\ aPc = "loadFromAffiliates"
    /\ aEmails' = loadFromAffiliates(aEmails, aUser.name, aTable)
    /\ aPc' = "loaded"
    /\ UNCHANGED <<aBlocks, aFile, aTable, aUser>>
    /\ UNCHANGED <<retryVars, parseVars, gitVars, pipeVars, cacheVars,
                   mineVars, moreVars>>

AffNext ==
    \/ GetDevAffiliations
    \/ \E name \in UserNamePool, primary \in UserMailPool,
          cached \in CachedPool :
         LoadOrGetUser(name, primary, cached)
    \/ SupplementWithAffiliates
    \/ \E mail \in LdapMailPool : SupplementWithLDAP(mail)
    \/ \E name \in UserNamePool, primary \in UserMailPool,
          cached \in CachedPool, mail \in LdapMailPool :
         MemberLoad(name, primary, cached, mail)
    \/ LoadFromAffiliates

InitAff ==
    AffInit /\ MoreIdle /\ RetryIdle /\ ParseIdle /\ GitIdle /\ PipeIdle /\ CacheIdle
    /\ MineIdle

SpecAff == InitAff /\ [][AffNext]_vars

\* ---- claims about the affiliation merge and the affiliation table

\* the affiliations the two lookups of the merge can find for the user
FoundAffiliations ==
    { aTable.objs[aTable.keys[k]] :
        k \in ({aUser.name, aUser.primary} \ {<<>>}) \cap DOMAIN aTable.keys }

\* C16: an affiliation whose occurrence count is greater than 1 contributes
\* no e-mail to the user's list, whether it is found by the display name or
\* by the primary e-mail: every e-mail an affiliation merge adds is an
\* e-mail of an affiliation found with occurrence count 1, so that nothing
\* is added when every affiliation found occurs more than once.
C16_AmbiguousNotMerged ==
    [][(aPc = "supplementWithAffiliates" \/ aPc = "loadFromAffiliates") =>
          /\ SubSeq(aEmails', 1, Len(aEmails)) = aEmails
          /\ RangeOf(aEmails') \ RangeOf(aEmails) \subseteq
                UNION { RangeOf(a.Emails) :
                          a \in {f \in FoundAffiliations :
                                    f.Occurrences = 1} }]_vars

\* the merge of loadOrGetUser ran for a user whose name keys an affiliation
\* that occurs more than once and lists an e-mail the user does not have
C16_Witness ==
    /\ aPc = "supplementWithLDAP"
    /\ aUser.name \in DOMAIN aTable.keys
    /\ LET a == aTable.objs[aTable.keys[aUser.name]]
       IN  /\ a.Occurrences > 1
           /\ \E e \in RangeOf(a.Emails) : e \notin RangeOf(aEmails)

C18_NoEmptyEmail ==
    aPc \in {"done", "loaded"} => <<>> \notin RangeOf(aEmails)

\* the company lines of the blocks named name, in file order, as the table
\* should hold them
RECURSIVE CompaniesOf(_, _)
CompaniesOf(blocks, name) ==
    IF blocks = <<>> THEN <<>>
    ELSE (IF Head(blocks).name = name
          THEN [i \in 1..Len(Head(blocks).cos) |->
                  [Name |-> Head(blocks).cos[i].Name,
                   Until |-> Head(blocks).cos[i].Until]]
          ELSE <<>>) \o CompaniesOf(Tail(blocks), name)

\* every company line that carries a date carries one time.Parse accepts
WellFormed(blocks) ==
    \A i \in 1..Len(blocks) : \A j \in 1..Len(blocks[i].cos) :
        blocks[i].cos[j].raw = <<>> \/ blocks[i].cos[j].Until # <<>>

\* C19: after the decoding of a well-formed file with at least one block,
\* the count is greater than 0 and the table maps the name of every block
\* and every e-mail the block lists (! replaced by @, spaces trimmed) to the
\* affiliation of that name, whose companies are the company lines of its
\* blocks in file order, with the until date of exactly the lines that
\* carry one.
C19_TableMapsNamesAndEmails ==
    (aPc \notin {"idle", "decode"} /\ aBlocks # <<>> /\ WellFormed(aBlocks))
    => /\ ~aTable.err
       /\ aTable.n > 0
       /\ \A i \in 1..Len(aBlocks) :
            LET b == aBlocks[i]
            IN  /\ b.name \in DOMAIN aTable.keys
                /\ aTable.objs[aTable.keys[b.name]].Name = b.name
                /\ aTable.objs[aTable.keys[b.name]].Companies =
                       CompaniesOf(aBlocks, b.name)
                /\ \A j \in 1..Len(b.mails) :
                     /\ b.mails[j].clean \in DOMAIN aTable.keys
                     /\ aTable.keys[b.mails[j].clean] = aTable.keys[b.name]

\* ---- decode and getDevAffiliates on files that also hold a name written
\* ---- like an e-mail address, a date that is not of the ten-character
\* ---- shape, and a line that is no header

DecodeNames == AffNames \cup {MailA.clean}

\* a company line whose date coRX does not take as a date
CoShortDate == Co(<<"I", "B", "M">>,
                  <<"2", "0", "2", "0", "-", "1", "-", "1">>, <<>>)

DecodeCoLists == { <<>>, <<CoAcme, CoIBM>>, <<CoBadDate>>, <<CoShortDate>> }

DecodeBlocks ==
    { [name |-> nm, mails |-> ms, cos |-> cs] :
        nm \in DecodeNames, ms \in { <<MailA>>, <<MailB, MailEmpty>> },
        cs \in DecodeCoLists }

\* a line that is not indented and has no colon
NoHeader == <<"B", "o", "b">>

InsertAt(lines, k, line) ==
    SubSeq(lines, 1, k - 1) \o <<line>> \o SubSeq(lines, k, Len(lines))

DecodeInit ==
    /\ aBlocks \in UNION { SeqsOfLen(DecodeBlocks, n) : n \in 0..MaxBlocks }
    /\ aFile \in {FileLines(aBlocks)} \cup
                 { InsertAt(FileLines(aBlocks), k, NoHeader) :
                     k \in 2..(Len(FileLines(aBlocks)) + 1) }
    /\ aTable = <<>>
    /\ aUser = <<>>
    /\ aEmails = <<>>
    /\ aPc = "decode"

\* getDevAffiliates from data := devAffiliates{} on: n, the table (nil
\* after an error) and the error
getDevAffiliates(lines) ==
    LET data == decode(lines)
    IN  IF data.err THEN [EmptyTable EXCEPT !.n = data.n, !.err = TRUE]
        ELSE data

GetDevAffiliates ==
    /\ aPc = "decode"
    /\ \E da \in {getDevAffiliates(aFile)} :
         /\ aTable' = da
         /\ aPc' = IF da.err THEN "failed" ELSE "load"
    /\ UNCHANGED <<aBlocks, aFile, aUser, aEmails>>
    /\ UNCHANGED <<retryVars, parseVars, gitVars, pipeVars, cacheVars,
                   mineVars, moreVars>>

InitDecode ==
    DecodeInit /\ MoreIdle /\ RetryIdle /\ ParseIdle /\ GitIdle /\ PipeIdle
    /\ CacheIdle /\ MineIdle

SpecDecode == InitDecode /\ [][GetDevAffiliates]_vars

\* C35: after a decoding without error, the occurrence count of every
\* affiliation is the number of header lines of the file that carry its
\* name, and the count decode returns is the number of distinct names.
C35_OccurrencesCountHeaders ==
    (aPc = "load" /\ aFile = FileLines(aBlocks)) =>
        /\ aTable.n = Cardinality({ aBlocks[i].name : i \in 1..Len(aBlocks) })
        /\ \A o \in DOMAIN aTable.objs :
             aTable.objs[o].Occurrences =
                 Cardinality({ i \in 1..Len(aBlocks) :
                                 aBlocks[i].name = aTable.objs[o].Name })

\* the file has a line that is no header, or a company line whose text
\* after "until" is not a date
Malformed ==
    \/ aFile # FileLines(aBlocks)
    \/ \E i \in 1..Len(aBlocks) : \E j \in 1..Len(aBlocks[i].cos) :
         aBlocks[i].cos[j].raw # <<>> /\ aBlocks[i].cos[j].Until = <<>>

\* C36: a malformed header line or company line makes the decoding fail,
\* and getDevAffiliates then returns no table.
C36_MalformedIsFatal ==
    (aPc # "decode" /\ Malformed) =>
        /\ aPc = "failed"
        /\ aTable.err
        /\ aTable.objs = <<>> /\ aTable.keys = <<>>

-----------------------------------------------------------------------------
(* The retry loop of one remote call (member.loadFromGitHub) *)

\* the longest run of attempts the loop can make: one first attempt and one
\* more for every value 0..cap of the retry counter that passes the test
ScriptLen == MaxRetriesCfg + 2

RetryInit ==
    /\ rScript \in SeqsOfLen(RetryResps, ScriptLen)
    /\ rCap \in 0..MaxRetriesCfg
    /\ rCur = 0
    /\ rAttempts = 0
    /\ rSleeps = <<>>
    /\ rResult = "none"

\* One iteration of the for loop: the call, and on an error the decision of
\* retryAfter with its sleep.
RetryAttempt ==
    /\ rResult = "none"
    /\ rAttempts < Len(rScript)
    /\ LET rep == rScript[rAttempts + 1]
           d   == retryAfter(rep, rCur, rCap)
       IN  /\ rAttempts' = rAttempts + 1
           /\ IF ~rep.err
              THEN /\ rResult' = "ok"
                   /\ UNCHANGED <<rCur, rSleeps>>
              ELSE IF d.retry
              THEN /\ rCur' = d.cur
                   /\ rSleeps' = Append(rSleeps, d.sleep)
                   /\ rResult' = "none"
              ELSE /\ rResult' = "err"
                   /\ UNCHANGED <<rCur, rSleeps>>
    /\ UNCHANGED <<rScript, rCap>>
    /\ UNCHANGED <<pipeVars, parseVars, gitVars, cacheVars,
                   mineVars, affVars, moreVars>>

RetryNext == RetryAttempt

InitRetry == RetryInit /\ MoreIdle /\ PipeIdle /\ ParseIdle /\ GitIdle /\ CacheIdle
    /\ MineIdle /\ AffIdle

SpecRetry == InitRetry /\ [][RetryNext]_vars

\* C7: for any sequence of failing responses the number of retries made for
\* one remote call never exceeds the configured api-retries cap.
C7_RetriesWithinCap == Len(rSleeps) <= rCap /\ rCur <= rCap

\* C8: with a cap of at least 2, a call whose first two attempts fail with
\* Retry-After: 2 and whose third attempt succeeds is attempted exactly three
\* times, sleeps 2 seconds before each of the two retries and succeeds.
FailsWithRetryAfter2(rep) ==
    rep.err /\ rep.hasRep /\ rep.retryAfterHdr = << <<"2">> >>

C8_Precondition ==
    /\ rCap >= 2
    /\ FailsWithRetryAfter2(rScript[1])
    /\ FailsWithRetryAfter2(rScript[2])
    /\ ~rScript[3].err

C8_RetryAfterTwice ==
    (C8_Precondition /\ (rResult # "none" \/ rAttempts >= 3)) =>
        /\ rAttempts = 3
        /\ rSleeps = <<2, 2>>
        /\ rResult = "ok"

C8_Witness ==
    C8_Precondition /\ rResult = "ok" /\ rAttempts = 3 /\ rCap = 2

\* C9: a failed call whose response has no Retry-After header and a status
\* of the 5xx class is retried after the fixed backoff while the retry cap
\* is not reached.
C9_Retries5xx ==
    [][ (/\ rResult = "none"
         /\ rAttempts < Len(rScript)
         /\ rScript[rAttempts + 1].err
         /\ rScript[rAttempts + 1].hasRep
         /\ rScript[rAttempts + 1].retryAfterHdr = <<>>
         /\ rScript[rAttempts + 1].status \in 500..599
         /\ rCur < rCap)
        => (/\ rResult' = "none"
            /\ rSleeps' = Append(rSleeps, RetryWait)) ]_vars

\* C29: a call that fails with a network error, for which no response is
\* available, is retried while the retry cap is not reached, instead of
\* failing on that attempt.
C29_RetriesNetworkError ==
    [][ (/\ rResult = "none"
         /\ rAttempts < Len(rScript)
         /\ rScript[rAttempts + 1].err
         /\ ~rScript[rAttempts + 1].hasRep
         /\ rCur < rCap)
        => rResult' = "none" ]_vars

-----------------------------------------------------------------------------
(* Named mode: main reads the non-flag arguments into opts.config.Args,     *)
(* getMembers chooses between getNamedMembers and getAllMembers, and        *)
(* getNamedMembers starts one worker goroutine per element of               *)
(* opts.config.Args.                                                        *)

BaseIdle ==
    /\ RetryIdle /\ ParseIdle /\ GitIdle /\ PipeIdle /\ CacheIdle /\ MineIdle
    /\ AffIdle

ArgPool == {LoginPool[i] : i \in 1..MaxArgv}

RECURSIVE SeqsUpTo(_, _)
SeqsUpTo(S, n) ==
    IF n = 0 THEN {<<>>}
    ELSE LET shorter == SeqsUpTo(S, n - 1)
         IN  shorter \cup {Append(q, x) : q \in shorter, x \in S}

\* the orders in which a range over a map with the keys S can yield them
RECURSIVE KeyOrders(_)
KeyOrders(S) ==
    IF S = {} THEN {<<>>}
    ELSE UNION {{<<x>> \o q : q \in KeyOrders(S \ {x})} : x \in S}

\* the mutant of unique: every element is copied, repeats included
uniqueKeepsRepeats(src) == {src}

\* unique(src), as the set of slices it can return: nil for an empty src,
\* else the distinct elements in the order the map yields them
unique(src) ==
    IF Len(src) = 0 THEN {<<>>} ELSE KeyOrders(RangeOf(src))

NamedInit ==
    /\ nArgv \in SeqsUpTo(ArgPool, MaxArgv)
    /\ nResume \in BOOLEAN
    /\ nArgs = <<>>
    /\ nPc = "main"
    /\ nI = 0
    /\ nStarted = [l \in ArgPool |-> 0]
    /\ nEnum = FALSE

\* main: opts.config.Args = flag.Args(), made unique when resume is
\* disabled; with resume enabled anything but one argument ends the program
MainArgs ==
    /\ nPc = "main"
    /\ IF ~nResume
       THEN /\ nArgs' \in unique(nArgv)
            /\ nPc' = "getMembers"
       ELSE IF Len(nArgv) # 1
            THEN /\ nArgs' = nArgv
                 /\ nPc' = "exit1"
            ELSE /\ nArgs' = nArgv
                 /\ nPc' = "getMembers"
    /\ UNCHANGED <<nArgv, nResume, nI, nStarted, nEnum>>
    /\ UNCHANGED <<baseVars, govVars, loadVars, lateVars>>

\* getMembers: the choice of the member source
GetMembersChoice ==
    /\ nPc = "getMembers"
    /\ IF Len(nArgs) > 0 /\ ~nResume
       THEN /\ nPc' = "getNamedMembers"
            /\ nI' = 1
            /\ UNCHANGED nEnum
       ELSE /\ nPc' = "getAllMembers"
            /\ nEnum' = TRUE
            /\ UNCHANGED nI
    /\ UNCHANGED <<nArgv, nResume, nArgs, nStarted>>
    /\ UNCHANGED <<baseVars, govVars, loadVars, lateVars>>

\* getNamedMembers: one turn of the loop, wg.Add(1) and go func(i) for the
\* login opts.config.Args[i]
NamedStart ==
    /\ nPc = "getNamedMembers"
    /\ nI <= Len(nArgs)
    /\ nStarted' = [nStarted EXCEPT ![nArgs[nI]] = @ + 1]
    /\ nI' = nI + 1
    /\ UNCHANGED <<nArgv, nResume, nArgs, nPc, nEnum>>
    /\ UNCHANGED <<baseVars, govVars, loadVars, lateVars>>

\* getNamedMembers: the loop has ended
NamedLoopEnd ==
    /\ nPc = "getNamedMembers"
    /\ nI > Len(nArgs)
    /\ nPc' = "started"
    /\ UNCHANGED <<nArgv, nResume, nArgs, nI, nStarted, nEnum>>
    /\ UNCHANGED <<baseVars, govVars, loadVars, lateVars>>

NamedNext ==
    \/ MainArgs
    \/ GetMembersChoice
    \/ NamedStart
    \/ NamedLoopEnd

InitNamed == NamedInit /\ BaseIdle /\ GovIdle /\ LoadIdle /\ LateIdle

SpecNamed == InitNamed /\ [][NamedNext]_vars

\* C21: with resume disabled and a non-empty argument list, which may hold
\* repeats, one worker is started for every distinct argument, none for any
\* other login, and the roster is not enumerated.
C21_NamedMode ==
    (~nResume /\ nArgv # <<>>) =>
        /\ ~nEnum
        /\ nPc \notin {"getAllMembers", "exit1"}
        /\ \A l \in ArgPool :
              nStarted[l] <= (IF l \in RangeOf(nArgv) THEN 1 ELSE 0)
        /\ nPc = "started" =>
              \A l \in RangeOf(nArgv) : nStarted[l] = 1

\* the loop of getNamedMembers has ended for an argument list that names a
\* login twice and leaves another login of the pool out
C21_Witness ==
    /\ ~nResume
    /\ nPc = "started"
    /\ Len(nArgv) > Cardinality(RangeOf(nArgv))
    /\ Cardinality(RangeOf(nArgv)) > 1
    /\ \E l \in ArgPool : l \notin RangeOf(nArgv) /\ nStarted[l] = 0
    /\ \A l \in RangeOf(nArgv) : nStarted[l] = 1

-----------------------------------------------------------------------------
(* The base record of one login: the cached record on disk and the profile  *)
(* fetched live, as the three generations of the program combine them:      *)
(* getNamedMembers of users.go, loadOrGetUser, and member.load.             *)

ProfileNames == UserNamePool

ProfileMails == UserMailPool

\* a cached record: the profile fields and the merged e-mail list
CachedRecords ==
    [Name : ProfileNames, Email : ProfileMails,
     Emails : CachedPool \cup {<<MailA.clean, EmailPool[4]>>}]

RemoteProfiles == [Name : ProfileNames, Email : ProfileMails]

LoadInit ==
    /\ lCfg \in BOOLEAN
    /\ lDisk \in {<<>>} \cup CachedRecords
    /\ lRemote \in RemoteProfiles
    /\ lPc = "load"
    /\ lOut = <<>>

\* loadUserFromDisk of users.go: os.Open fails for a missing file and the
\* error is returned
loadUserFromDiskOpen(disk) ==
    IF disk = <<>>
    THEN [user |-> <<>>, err |-> TRUE]
    ELSE [user |-> disk, err |-> FALSE]

\* loadUserFromDisk of loadOrGetUser: a missing file gives nil, false, nil
loadUserFromDisk(disk) ==
    IF disk = <<>>
    THEN [user |-> <<>>, exists |-> FALSE, err |-> FALSE]
    ELSE [user |-> disk, exists |-> TRUE, err |-> FALSE]

\* getUser: the fetched profile, with no merged e-mails
getUser(remote) ==
    [Name |-> remote.Name, Email |-> remote.Email, Emails |-> <<>>]

\* loadOrGetUser up to the call of supplementWithAffiliates.  A nil user
\* (<<>>) is dereferenced by the range over user.Emails.
loadOrGetUser(noFetchUsers, disk, remote) ==
    LET ld   == loadUserFromDisk(disk)
        user == IF ~noFetchUsers
                THEN IF ld.exists
                     THEN [getUser(remote) EXCEPT !.Emails = ld.user.Emails]
                     ELSE getUser(remote)
                ELSE ld.user
    IN  IF user = <<>>
        THEN [status |-> "panic", Name |-> <<>>, Email |-> <<>>, Emails |-> <<>>]
        ELSE [status |-> "ok", Name |-> user.Name, Email |-> user.Email,
              Emails |-> IF user.Email # <<>> /\ user.Email \notin RangeOf(user.Emails)
                         THEN Append(user.Emails, user.Email)
                         ELSE user.Emails]

\* member.loadFromGitHub after a successful Users.Get
loadFromGitHub(m, noUsers, remote) ==
    IF noUsers THEN m
    ELSE [m EXCEPT !.Name = IF @ = <<>> THEN remote.Name ELSE @,
                   !.Emails = uniqueStringSliceAppend(@, remote.Email)]

\* member.load up to loadFromGitHub: the record of the member type holds
\* the name and the e-mail list
memberLoad(noUsers, disk, remote) ==
    LET m0 == [status |-> "ok", Name |-> <<>>, Email |-> <<>>, Emails |-> <<>>]
        m1 == IF disk # <<>>
              THEN [m0 EXCEPT !.Name = disk.Name, !.Emails = disk.Emails]
              ELSE m0
    IN  IF ~noUsers THEN loadFromGitHub(m1, noUsers, remote) ELSE m1

\* the goroutine of getNamedMembers of users.go for one login; its cached
\* record is a github.User, which has no merged e-mail list
UsersGetNamedMember ==
    /\ lPc = "load"
    /\ lDisk # <<>> => lDisk.Emails = <<>>
    /\ lOut' = IF lCfg
               THEN LET ld == loadUserFromDiskOpen(lDisk)
                    IN  IF ld.err
                        THEN [status |-> "err", Name |-> <<>>, Email |-> <<>>,
                              Emails |-> <<>>]
                        ELSE [status |-> "ok", Name |-> ld.user.Name,
                              Email |-> ld.user.Email, Emails |-> <<>>]
               ELSE [status |-> "ok", Name |-> lRemote.Name,
                     Email |-> lRemote.Email, Emails |-> <<>>]
    /\ lPc' = "getNamedMembers"
    /\ UNCHANGED <<lCfg, lDisk, lRemote>>
    /\ UNCHANGED <<baseVars, namedVars, govVars, lateVars>>

LoadOrGetUserBase ==
    /\ lPc = "load"
    /\ lOut' = loadOrGetUser(lCfg, lDisk, lRemote)
    /\ lPc' = "loadOrGetUser"
    /\ UNCHANGED <<lCfg, lDisk, lRemote>>
    /\ UNCHANGED <<baseVars, namedVars, govVars, lateVars>>

MemberLoadBase ==
    /\ lPc = "load"
    /\ lOut' = memberLoad(lCfg, lDisk, lRemote)
    /\ lPc' = "member.load"
    /\ UNCHANGED <<lCfg, lDisk, lRemote>>
    /\ UNCHANGED <<baseVars, namedVars, govVars, lateVars>>

LoadNext ==
    \/ UsersGetNamedMember
    \/ LoadOrGetUserBase
    \/ MemberLoadBase

InitLoad == LoadInit /\ BaseIdle /\ NamedIdle /\ GovIdle /\ LateIdle

SpecLoad == InitLoad /\ [][LoadNext]_vars

\* C22: with live fetch disabled, a login with no cached record is not an
\* error: the load ends without a crash or an error and gives an identity
\* that carries the login only, with no name and no e-mail.
C22_MissingRecordNotError ==
    (lPc # "load" /\ lCfg /\ lDisk = <<>>) =>
        /\ lOut.status = "ok"
        /\ lOut.Name = <<>>
        /\ lOut.Emails = <<>>

\* C23: with live fetch enabled and a cached record present, the identity
\* keeps the cached e-mail list and takes the name from the fetched
\* profile, also where the cached record holds another name.
C23_FetchedProfileWins ==
    (lPc # "load" /\ ~lCfg /\ lDisk # <<>>) =>
        /\ lOut.status = "ok"
        /\ Len(lOut.Emails) >= Len(lDisk.Emails)
        /\ SubSeq(lOut.Emails, 1, Len(lDisk.Emails)) = lDisk.Emails
        /\ lOut.Name = lRemote.Name

-----------------------------------------------------------------------------
(* The remote calls and git subprocesses of updateLocalCache's per-user     *)
(* jobs: getUser fetches the user through the API pool, then writeIssueLog  *)
(* runs getIssues, which starts fetchIssues for three filters, and          *)
(* writeGitLog runs git() through the git pool.  The functions take their   *)
(* context from the caller, who may cancel it at any moment.                *)

GovUsers == {LoginPool[i] : i \in 1..MaxMiners}

\* the filters getIssues calls fetchIssues with
Filters == {"Creator", "Assignee", "Mentioned"}

GovInit ==
    /\ iCtxDone = FALSE
    /\ iApiMax \in 1..ApiMax
    /\ iChanAPI = 0
    /\ iReleasers = 0
    /\ iGitMax \in 1..MaxGitMax
    /\ iChanGit = 0
    /\ iUser = [u \in GovUsers |-> "waitForAPI"]
    /\ iFetch = [u \in GovUsers |-> [f \in Filters |-> "idle"]]
    /\ iPulls = [u \in GovUsers |-> [f \in Filters |-> 0]]
    /\ iGit = [u \in GovUsers |-> "idle"]

\* the caller cancels the context
GovCancel ==
    /\ ~iCtxDone
    /\ iCtxDone' = TRUE
    /\ UNCHANGED <<iApiMax, iChanAPI, iReleasers, iGitMax, iChanGit, iUser,
                   iFetch, iPulls, iGit>>
    /\ UNCHANGED <<baseVars, namedVars, loadVars, lateVars>>

\* getUser: waitForAPI() granted, client.Users.Get issued
GovWaitForAPI(u) ==
    /\ iUser[u] = "waitForAPI"
    /\ iChanAPI < iApiMax
    /\ iChanAPI' = iChanAPI + 1
    /\ iUser' = [iUser EXCEPT ![u] = "inCall"]
    /\ UNCHANGED <<iCtxDone, iApiMax, iReleasers, iGitMax, iChanGit, iFetch,
                   iPulls, iGit>>
    /\ UNCHANGED <<baseVars, namedVars, loadVars, lateVars>>

\* getUser: Users.Get returns, doneWithAPI(); the user reaches
\* updateLocalCache, which starts writeIssueLog and writeGitLog for it.
\* When the context is cancelled the select of updateLocalCache can also
\* take case <-ctx.Done() and return, and the jobs are not started.
GovUserReturn(u, taken) ==
    /\ iUser[u] = "inCall"
    /\ taken \/ iCtxDone
    /\ iReleasers' = iReleasers + 1
    /\ iUser' = [iUser EXCEPT ![u] = "fetched"]
    /\ IF taken
       THEN /\ iFetch' = [iFetch EXCEPT ![u] = [f \in Filters |-> "start"]]
            /\ iGit' = [iGit EXCEPT ![u] = "git"]
       ELSE UNCHANGED <<iFetch, iGit>>
    /\ UNCHANGED <<iCtxDone, iApiMax, iChanAPI, iGitMax, iChanGit, iPulls>>
    /\ UNCHANGED <<baseVars, namedVars, loadVars, lateVars>>

\* the goroutine started by doneWithAPI takes its token
GovApiRelease ==
    /\ iReleasers > 0
    /\ iReleasers' = iReleasers - 1
    /\ iChanAPI' = iChanAPI - 1
    /\ UNCHANGED <<iCtxDone, iApiMax, iGitMax, iChanGit, iUser, iFetch,
                   iPulls, iGit>>
    /\ UNCHANGED <<baseVars, namedVars, loadVars, lateVars>>

\* fetchIssues: for ctx.Err() == nil && opts.Page > 0, then
\* client.Issues.ListByRepo is issued
GovListByRepo(u, f) ==
    /\ iFetch[u][f] = "start"
    /\ iFetch' = [iFetch EXCEPT ![u][f] = IF iCtxDone THEN "done" ELSE "list"]
    /\ UNCHANGED <<iCtxDone, iApiMax, iChanAPI, iReleasers, iGitMax, iChanGit,
                   iUser, iPulls, iGit>>
    /\ UNCHANGED <<baseVars, namedVars, loadVars, lateVars>>

\* fetchIssues: ListByRepo returns its only page; when the page holds a
\* pull request a goroutine issues client.PullRequests.Get for it
GovListReturn(u, f, pull) ==
    /\ iFetch[u][f] = "list"
    /\ iFetch' = [iFetch EXCEPT ![u][f] = "done"]
    /\ iPulls' = [iPulls EXCEPT ![u][f] =
                     IF pull /\ ~iCtxDone THEN @ + 1 ELSE @]
    /\ UNCHANGED <<iCtxDone, iApiMax, iChanAPI, iReleasers, iGitMax, iChanGit,
                   iUser, iGit>>
    /\ UNCHANGED <<baseVars, namedVars, loadVars, lateVars>>

\* fetchIssues: PullRequests.Get returns
GovPullReturn(u, f) ==
    /\ iPulls[u][f] > 0
    /\ iPulls' = [iPulls EXCEPT ![u][f] = @ - 1]
    /\ UNCHANGED <<iCtxDone, iApiMax, iChanAPI, iReleasers, iGitMax, iChanGit,
                   iUser, iFetch, iGit>>
    /\ UNCHANGED <<baseVars, namedVars, loadVars, lateVars>>

\* git(): waitForGit() granted, the subprocess is started
GovWaitForGit(u) ==
    /\ iGit[u] = "git"
    /\ iChanGit < iGitMax
    /\ iChanGit' = iChanGit + 1
    /\ iGit' = [iGit EXCEPT ![u] = "running"]
    /\ UNCHANGED <<iCtxDone, iApiMax, iChanAPI, iReleasers, iGitMax, iUser,
                   iFetch, iPulls>>
    /\ UNCHANGED <<baseVars, namedVars, loadVars, lateVars>>

\* the subprocess has ended and its output is read: doneWithGit()
GovGitDone(u) ==
    /\ iGit[u] = "running"
    /\ iChanGit' = iChanGit - 1
    /\ iGit' = [iGit EXCEPT ![u] = "done"]
    /\ UNCHANGED <<iCtxDone, iApiMax, iChanAPI, iReleasers, iGitMax, iUser,
                   iFetch, iPulls>>
    /\ UNCHANGED <<baseVars, namedVars, loadVars, lateVars>>

GovNext ==
    \/ GovCancel
    \/ \E u \in GovUsers : GovWaitForAPI(u)
    \/ \E u \in GovUsers, taken \in BOOLEAN : GovUserReturn(u, taken)
    \/ GovApiRelease
    \/ \E u \in GovUsers, f \in Filters : GovListByRepo(u, f)
    \/ \E u \in GovUsers, f \in Filters, pull \in BOOLEAN :
          GovListReturn(u, f, pull)
    \/ \E u \in GovUsers, f \in Filters : GovPullReturn(u, f)
    \/ \E u \in GovUsers : GovWaitForGit(u)
    \/ \E u \in GovUsers : GovGitDone(u)

InitGov == GovInit /\ BaseIdle /\ NamedIdle /\ LoadIdle /\ LateIdle

SpecGov == InitGov /\ [][GovNext]_vars

\* the remote calls issued and not yet returned: Users.Get, ListByRepo and
\* PullRequests.Get
GovInFlight ==
    Cardinality({u \in GovUsers : iUser[u] = "inCall"})
    + Cardinality({uf \in GovUsers \X Filters : iFetch[uf[1]][uf[2]] = "list"})
    + Cardinality({uf \in GovUsers \X Filters : iPulls[uf[1]][uf[2]] > 0})

\* C26: every remote call, those of fetchIssues included, is made while a
\* slot of the API pool is held: the number of remote calls in flight is
\* never more than api-max.
C26_AllRemoteCallsPooled == GovInFlight <= iApiMax

-----------------------------------------------------------------------------
(* The author strings commit mining queries git log with for one identity,  *)
(* in the three versions of the mining: writeGitLogForAuthor of the first   *)
(* main, writeGitLog of updateLocalCache, and member.gitLog.                *)

CandUsers ==
    { [login |-> LoginChars(l), email |-> e, name |-> n, emails |-> es] :
        l \in {LoginPool[i] : i \in 1..MaxLogins}, e \in UserEmails,
        n \in UserNames,
        es \in { <<>>, <<EmailPool[1]>>, <<EmailPool[2], EmailPool[1]>> } }

CandInit ==
    /\ qUser \in CandUsers
    /\ qList = <<>>
    /\ qPc = "mine"

\* writeGitLogForAuthor: gitLogForAuthor for the login, for the e-mail when
\* it is not empty and for the name when it is not empty
writeGitLogForAuthor(login, email, name) ==
    <<login>> \o (IF email # <<>> THEN <<email>> ELSE <<>>) \o
    (IF name # <<>> THEN <<name>> ELSE <<>>)

\* member.gitLog: findChangesets for every element of m.Emails
gitLog(emails) == emails

WriteGitLogForAuthor ==
    /\ qPc = "mine"
    /\ qList' = writeGitLogForAuthor(qUser.login, qUser.email, qUser.name)
    /\ qPc' = "writeGitLogForAuthor"
    /\ UNCHANGED <<qUser, earlyVars, workVars, issueVars>>

\* writeGitLog: the query for the login is commented out
WriteGitLog ==
    /\ qPc = "mine"
    /\ qList' = OldCandidates(qUser.email, qUser.name)
    /\ qPc' = "writeGitLog"
    /\ UNCHANGED <<qUser, earlyVars, workVars, issueVars>>

MemberGitLog ==
    /\ qPc = "mine"
    /\ qList' = gitLog(qUser.emails)
    /\ qPc' = "gitLog"
    /\ UNCHANGED <<qUser, earlyVars, workVars, issueVars>>

CandNext ==
    \/ WriteGitLogForAuthor
    \/ WriteGitLog
    \/ MemberGitLog

InitCand ==
    CandInit /\ BaseIdle /\ NamedIdle /\ GovIdle /\ LoadIdle /\ WorkIdle
    /\ IssueIdle

SpecCand == InitCand /\ [][CandNext]_vars

\* C33: the author strings queried for an identity are the login, then the
\* primary e-mail when it is not empty, then the display name when it has
\* at least 8 characters and contains a space, and nothing else.
C33_CandidateList ==
    qPc \notin {"idle", "mine"} =>
        qList = <<qUser.login>> \o
                (IF qUser.email # <<>> THEN <<qUser.email>> ELSE <<>>) \o
                (IF Len(qUser.name) >= 8 /\ " " \in RangeOf(qUser.name)
                 THEN <<qUser.name>> ELSE <<>>)

-----------------------------------------------------------------------------
(* writeIssueLog for one login with live fetch of the issues: getIssues     *)
(* merges the streams of the three fetchIssues calls (created by, assigned  *)
(* to, mentioning the login) into chanIssues, and writeIssues counts and    *)
(* writes what it receives.                                                 *)

\* an issue of the repository, seen from the login: whether the login made
\* it, is its assignee, is mentioned in it; whether it is a pull request
\* and whether that was merged
IssueKinds ==
    { [creator |-> c, assignee |-> a, mentioned |-> m, pull |-> p,
       merged |-> g] :
        c \in BOOLEAN, a \in BOOLEAN, m \in BOOLEAN, p \in BOOLEAN,
        g \in BOOLEAN }

\* the issues at least one of the three queries returns; the number of an
\* issue is its place in the sequence
IssuePool == { i \in IssueKinds : (i.creator \/ i.assignee \/ i.mentioned)
                                  /\ (i.merged => i.pull) }

\* the issues the query with the filter f returns
Returned(issues, f) ==
    { n \in 1..Len(issues) :
        CASE f = "Creator" -> issues[n].creator
          [] f = "Assignee" -> issues[n].assignee
          [] f = "Mentioned" -> issues[n].mentioned }

NoIssueReport == [Created |-> 0, Assigned |-> 0, Mentioned |-> 0, Merged |-> 0]

IssueInit ==
    /\ tIssues \in UNION { SeqsOfLen(IssuePool, n) : n \in 1..MaxIssues }
    /\ tPending = UNION { {f} \X Returned(tIssues, f) : f \in Filters }
    /\ tReport = [Issues |-> NoIssueReport, PullRequests |-> NoIssueReport]
    /\ tNumbers = {}
    /\ tWritten = [n \in 1..Len(tIssues) |-> 0]
    /\ tPc = "recv"

\* the closure updateIssueReport of writeIssueLog
updateIssueReport(i, r) ==
    LET r1 == IF i.creator
              THEN [r EXCEPT !.Created = @ + 1,
                             !.Merged = IF i.pull /\ i.merged THEN @ + 1 ELSE @]
              ELSE r
        r2 == IF i.assignee THEN [r1 EXCEPT !.Assigned = @ + 1] ELSE r1
    IN  IF ~(i.creator \/ i.assignee)
        THEN [r2 EXCEPT !.Mentioned = @ + 1] ELSE r2

\* case issue, ok := <-chanIssues with ok: the report is updated, then
\* syncWriteIssue writes the issue unless its number is in issueNumbers;
\* an error of writeIssue ends writeIssues
IssueRecv(f, n, writeOk) ==
    /\ tPc = "recv"
    /\ <<f, n>> \in tPending
    /\ tPending' = tPending \ {<<f, n>>}
    /\ tReport' = IF tIssues[n].pull
                  THEN [tReport EXCEPT !.PullRequests =
                                           updateIssueReport(tIssues[n], @)]
                  ELSE [tReport EXCEPT !.Issues =
                                           updateIssueReport(tIssues[n], @)]
    /\ IF n \in tNumbers
       THEN /\ writeOk
            /\ UNCHANGED <<tNumbers, tWritten, tPc>>
       ELSE /\ tNumbers' = tNumbers \cup {n}
            /\ tWritten' = [tWritten EXCEPT ![n] = @ + 1]
            /\ tPc' = IF writeOk THEN "recv" ELSE "failed"
    /\ UNCHANGED <<tIssues, earlyVars, workVars, candVars>>

\* case err, ok := <-chanErrs with ok: a fetchIssues call has failed
IssueRecvErr ==
    /\ tPc = "recv"
    /\ tPending # {}
    /\ tPc' = "failed"
    /\ UNCHANGED <<tIssues, tPending, tReport, tNumbers, tWritten, earlyVars,
                   workVars, candVars>>

\* case issue, ok := <-chanIssues with !ok: the three streams have ended,
\* writeIssues returns nil and the report is written
IssueClosed ==
    /\ tPc = "recv"
    /\ tPending = {}
    /\ tPc' = "done"
    /\ UNCHANGED <<tIssues, tPending, tReport, tNumbers, tWritten, earlyVars,
                   workVars, candVars>>

IssueNext ==
    \/ \E f \in Filters, n \in 1..MaxIssues, writeOk \in BOOLEAN :
          IssueRecv(f, n, writeOk)
    \/ IssueRecvErr
    \/ IssueClosed

InitIssue ==
    IssueInit /\ BaseIdle /\ NamedIdle /\ GovIdle /\ LoadIdle /\ WorkIdle
    /\ CandIdle

SpecIssue == InitIssue /\ [][IssueNext]_vars

\* the numbers of the issues (pull = FALSE) or pull requests (pull = TRUE)
IssuesOfKind(pull) == { n \in 1..Len(tIssues) : tIssues[n].pull = pull }

\* C40: an issue that more than one of the three queries returns is counted
\* at most once: no counter of the report is greater than the number of
\* distinct issues (or pull requests) it counts, and no issue is written
\* more than once.
C40_CountedOnce ==
    tPc # "idle" =>
        /\ \A n \in 1..Len(tIssues) : tWritten[n] <= 1
        /\ \A pull \in BOOLEAN :
             LET r == IF pull THEN tReport.PullRequests ELSE tReport.Issues
                 of == IssuesOfKind(pull)
             IN  /\ r.Created <= Cardinality({n \in of : tIssues[n].creator})
                 /\ r.Assigned <= Cardinality({n \in of : tIssues[n].assignee})
                 /\ r.Merged <= Cardinality({n \in of : tIssues[n].creator
                                                     /\ tIssues[n].merged})
                 /\ r.Mentioned <=
                        Cardinality({n \in of : ~tIssues[n].creator
                                                /\ ~tIssues[n].assignee})

-----------------------------------------------------------------------------
(* The set-up of main and the member workers: main makes the git pool and,  *)
(* under its test of the three no-fetch flags, the GitHub client and the    *)
(* API pool; every member is loaded by its own worker (member.load with     *)
(* loadFromGitHub), and getMembers mines the loaded members one after the   *)
(* other (member.gitLog, findChangesets, git).  Git is enabled.             *)

WorkUsers == {LoginPool[i] : i \in 1..MaxMiners}

WorkInit ==
    /\ sCfg \in [NoUsers : BOOLEAN, NoIssues : BOOLEAN,
                 NoPullRequests : BOOLEAN]
    /\ sMain = "setup"
    /\ sMade = FALSE
    /\ sApi = 0
    /\ sRel = 0
    /\ sGit = 0
    /\ sPc = [u \in WorkUsers |-> "none"]
    /\ sRetries = [u \in WorkUsers |-> 0]
    /\ sLeft \in [WorkUsers -> 0..MaxCandidates]

\* the test main puts in front of newGitHubAPIClient and make(chan ...)
apiClientMade(cfg) == ~cfg.NoUsers /\ ~cfg.NoIssues /\ ~cfg.NoPullRequests

\* a slot of the git pool that is given back without being taken out
doneWithGitKept(n) == n

\* opts.doneWithGit(): <-o.chanGit
doneWithGit(n) == n - 1

\* main up to the start of the member source
WorkMain ==
    /\ sMain = "setup"
    /\ sMade' = apiClientMade(sCfg)
    /\ sMain' = "run"
    /\ sPc' = [u \in WorkUsers |-> "load"]
    /\ UNCHANGED <<sCfg, sApi, sRel, sGit, sRetries, sLeft>>
    /\ UNCHANGED <<earlyVars, candVars, issueVars>>

\* member.load with no-fetch-users: loadFromGitHub is not called
WorkLoadCached(u) ==
    /\ sPc[u] = "load"
    /\ sCfg.NoUsers
    /\ sPc' = [sPc EXCEPT ![u] = "mine"]
    /\ UNCHANGED <<sCfg, sMain, sMade, sApi, sRel, sGit, sRetries, sLeft>>
    /\ UNCHANGED <<earlyVars, candVars, issueVars>>

\* loadFromGitHub: opts.waitForAPI() granted.  The send on a nil channel
\* blocks forever.
WorkWaitForAPI(u) ==
    /\ sPc[u] = "load"
    /\ ~sCfg.NoUsers
    /\ sMade
    /\ sApi < ApiMax
    /\ sApi' = sApi + 1
    /\ sPc' = [sPc EXCEPT ![u] = "inCall"]
    /\ UNCHANGED <<sCfg, sMain, sMade, sRel, sGit, sRetries, sLeft>>
    /\ UNCHANGED <<earlyVars, candVars, issueVars>>

\* loadFromGitHub: Users.Get returns, opts.doneWithAPI(), then the retry,
\* the error or the loaded member
WorkUsersGet(u, rep) ==
    /\ sPc[u] = "inCall"
    /\ sRel' = sRel + 1
    /\ IF rep.err
       THEN LET d == retryAfter(rep, sRetries[u], ApiRetries)
            IN  IF d.retry
                THEN /\ sRetries' = [sRetries EXCEPT ![u] = d.cur]
                     /\ sPc' = [sPc EXCEPT ![u] = "load"]
                ELSE /\ sPc' = [sPc EXCEPT ![u] = "failed"]
                     /\ UNCHANGED sRetries
       ELSE /\ sPc' = [sPc EXCEPT ![u] = "mine"]
            /\ UNCHANGED sRetries
    /\ UNCHANGED <<sCfg, sMain, sMade, sApi, sGit, sLeft>>
    /\ UNCHANGED <<earlyVars, candVars, issueVars>>

\* the goroutine started by doneWithAPI takes its token
WorkApiRelease ==
    /\ sRel > 0
    /\ sRel' = sRel - 1
    /\ sApi' = sApi - 1
    /\ UNCHANGED <<sCfg, sMain, sMade, sGit, sPc, sRetries, sLeft>>
    /\ UNCHANGED <<earlyVars, candVars, issueVars>>

\* getMembers: case m, ok := <-chanMembersIn, after the member before it
\* has been mined; the goroutine has returned when a mining failed
WorkRecvMember(u) ==
    /\ sPc[u] = "mine"
    /\ \A v \in WorkUsers : sPc[v] \notin {"gitLog", "start", "parse",
                                           "failedGit"}
    /\ sPc' = [sPc EXCEPT ![u] = "gitLog"]
    /\ UNCHANGED <<sCfg, sMain, sMade, sApi, sRel, sGit, sRetries, sLeft>>
    /\ UNCHANGED <<earlyVars, candVars, issueVars>>

\* gitLog: the range over m.Emails has ended
WorkGitLogEnd(u) ==
    /\ sPc[u] = "gitLog"
    /\ sLeft[u] = 0
    /\ sPc' = [sPc EXCEPT ![u] = "done"]
    /\ UNCHANGED <<sCfg, sMain, sMade, sApi, sRel, sGit, sRetries, sLeft>>
    /\ UNCHANGED <<earlyVars, candVars, issueVars>>

\* git(): opts.waitForGit() granted
WorkWaitForGit(u) ==
    /\ sPc[u] = "gitLog"
    /\ sLeft[u] > 0
    /\ sGit < MaxGitMax
    /\ sGit' = sGit + 1
    /\ sPc' = [sPc EXCEPT ![u] = "start"]
    /\ UNCHANGED <<sCfg, sMain, sMade, sApi, sRel, sRetries, sLeft>>
    /\ UNCHANGED <<earlyVars, candVars, issueVars>>

\* git(): cmd.StdoutPipe() and cmd.Start(); after an error of one of them
\* opts.doneWithGit() and the error
WorkGitStart(u, res) ==
    /\ sPc[u] = "start"
    /\ IF res = "ok"
       THEN /\ sPc' = [sPc EXCEPT ![u] = "parse"]
            /\ UNCHANGED sGit
       ELSE /\ sGit' = doneWithGit(sGit)
            /\ sPc' = [sPc EXCEPT ![u] = "failedGit"]
    /\ UNCHANGED <<sCfg, sMain, sMade, sApi, sRel, sRetries, sLeft>>
    /\ UNCHANGED <<earlyVars, candVars, issueVars>>

\* findChangesets from defer done() on: the parse loop and wait(); the
\* deferred done() runs whichever way the function returns
WorkFindChangesets(u, res) ==
    /\ sPc[u] = "parse"
    /\ sGit' = doneWithGit(sGit)
    /\ IF res = "ok"
       THEN /\ sLeft' = [sLeft EXCEPT ![u] = @ - 1]
            /\ sPc' = [sPc EXCEPT ![u] = "gitLog"]
       ELSE /\ sPc' = [sPc EXCEPT ![u] = "failedGit"]
            /\ UNCHANGED sLeft
    /\ UNCHANGED <<sCfg, sMain, sMade, sApi, sRel, sRetries>>
    /\ UNCHANGED <<earlyVars, candVars, issueVars>>

WorkNext ==
    \/ WorkMain
    \/ \E u \in WorkUsers : WorkLoadCached(u)
    \/ \E u \in WorkUsers : WorkWaitForAPI(u)
    \/ \E u \in WorkUsers, rep \in PipeResps : WorkUsersGet(u, rep)
    \/ WorkApiRelease
    \/ \E u \in WorkUsers : WorkRecvMember(u)
    \/ \E u \in WorkUsers : WorkGitLogEnd(u)
    \/ \E u \in WorkUsers : WorkWaitForGit(u)
    \/ \E u \in WorkUsers, res \in {"ok", "pipeErr", "startErr"} :
          WorkGitStart(u, res)
    \/ \E u \in WorkUsers, res \in {"ok", "parseErr", "waitErr"} :
          WorkFindChangesets(u, res)

InitWork ==
    WorkInit /\ BaseIdle /\ NamedIdle /\ GovIdle /\ LoadIdle /\ CandIdle
    /\ IssueIdle

SpecWork == InitWork /\ [][WorkNext]_vars

\* every goroutine that can take a step eventually takes one
FairWork == SpecWork /\ WF_vars(WorkNext)

\* C37: when live user fetching is enabled the API pool exists once main
\* has ended its set-up, whatever the flags no-fetch-issues and
\* no-fetch-pull-requests are, and a worker that waits for a slot in
\* loadFromGitHub eventually gets past the wait.
C37_PoolExistsForUserFetch ==
    /\ []((sMain = "run" /\ ~sCfg.NoUsers) => sMade)
    /\ \A u \in WorkUsers :
         (sMain = "run" /\ ~sCfg.NoUsers /\ sPc[u] = "load")
             ~> (sPc[u] # "load")

=============================================================================
